---- MODULE Spec2Model ----
(***************************************************************************)
(* The request execution engine of txboto: AWSAuthConnection._mexe, the    *)
(* retrying send loop, together with the DynamoDB response classifier      *)
(* Layer1._retry_handler and the callers that wire the two together.       *)
(* Delays are kept in milliseconds so that 0.05 s is the integer 50.       *)
(***************************************************************************)
EXTENDS Integers, Sequences, FiniteSets, TLC

(* ------------------------------------------------------------------------ *)
(* Bounds of the model                                                      *)
(* ------------------------------------------------------------------------ *)

\* largest override_num_retries a direct caller of _mexe passes
MaxBudget == 3

\* number of distinct response bodies the server may send
MaxBody == 2

\* largest attempt index a backoff delay is computed for
MaxIndex == 12

\* number of request loops running in one process
NumTasks == 2

\* the retry budget of each of these loops
TaskBudget == 2

\* number of regions an endpoints document names
MaxRegions == 2

\* longest header value a caller supplies, in characters
MaxHeaderLen == 2

\* most direct calls of HTTPRequest.authorize on one request
MaxAuthorize == 3

\* most direct subclasses registered for one plugin class
MaxPlugins == 2

\* longest list of requested capabilities
MaxRequested == 2

\* most result items one page holds
MaxPage == 2

\* largest limit given to ResultSet.to_call
MaxLimit == 3

\* most pages a result set fetches
MaxFetches == 3

\* most calls of __next__ after the limit has stopped the iteration
MaxOverrun == 2

\* most keys handed to a BatchGetResultSet
MaxKeys == 3

\* max_batch_get, the most keys one request carries
MaxBatchGet == 2

\* most batches added to one batch list by add_batch
MaxBatches == 2

\* most requests one batch list sends
MaxSubmits == 2

(* ------------------------------------------------------------------------ *)
(* Program constants                                                        *)
(* ------------------------------------------------------------------------ *)

\* Layer1.NumberRetries
NumberRetries == 10

\* AWSAuthConnection.num_retries, set in __init__
ConnNumRetries == 6

\* config.get('TxBoto', 'max_retry_delay', 60), in milliseconds
MaxRetryDelay == 60000

\* the base of Layer1._exponential_time, 0.05 s, in milliseconds
ThruputBase == 50

\* the default of _mexe's parameter override_num_retries
DefaultOverrideNumRetries == 1

\* positional arguments _mexe passes to retry_handler:
\* (response, response_body, i, next_sleep)
MexeHandlerArgs == 4

\* parameters Layer1._retry_handler declares besides self:
\* (response, i, next_sleep)
RetryHandlerParams == 3

\* values random.random() is sampled at, in thousandths
RandomSamples == {0, 999}

(* ------------------------------------------------------------------------ *)
(* Values                                                                   *)
(* ------------------------------------------------------------------------ *)

Min(a, b) == IF a <= b THEN a ELSE b

RECURSIVE Pow2(_)
Pow2(n) == IF n <= 0 THEN 1 ELSE 2 * Pow2(n - 1)

\* response codes the loop retries by default
RetryCodes == {500, 502, 503, 504}

\* the __type discriminators of a 400 body: the four names Layer1 knows
\* and one it does not
ThruputError == "ProvisionedThroughputExceededException"
SessionExpiredError == "com.amazon.coral.service#ExpiredTokenException"
ConditionalCheckFailedError == "ConditionalCheckFailedException"
ValidationError == "ValidationException"
UnknownError == "InternalFailure"

Discriminators ==
  {ThruputError, SessionExpiredError, ConditionalCheckFailedError,
   ValidationError, UnknownError}

\* x-amz-crc32 header of a response: absent, equal to the body's crc32, or not
CrcStates == {"absent", "match", "mismatch"}

Bodies == 1..MaxBody

\* a response as the loop and the classifier read it: status code, the
\* __type of its JSON body (400 only), the checksum header, whether it has a
\* Location header, and its body
Responses ==
  [code : {200, 503}, dtype : {"-"}, crc : CrcStates,
   location : {FALSE}, body : Bodies]
  \cup [code : {404, 500, 502, 504}, dtype : {"-"}, crc : {"absent"},
        location : {FALSE}, body : Bodies]
  \cup [code : {302}, dtype : {"-"}, crc : {"absent"},
        location : BOOLEAN, body : Bodies]
  \cup [code : {400}, dtype : Discriminators, crc : {"absent", "mismatch"},
        location : {FALSE}, body : Bodies]

\* response = None
NoResponse == [code |-> 0, dtype |-> "-", crc |-> "absent",
               location |-> FALSE, body |-> 0]

\* code2status(response.code, 'N/A'): the reason phrase of a status code
code2status(code) == <<"reason", code>>

\* self.http_exceptions of AWSBaseConnection.__init__ (a sample of them)
http_exceptions == {"ConnectionRefusedError", "TimeoutError"}

\* self.http_unretryable_exceptions
http_unretryable_exceptions == {"SSL.Error", "CertificateError", "VerifyError"}

SendExceptions == http_exceptions \cup http_unretryable_exceptions

\* what a failing request hook raises: an exception of its own, or one of the
\* classes in http_exceptions
HookExceptions == {"HookError", "TimeoutError"}

\* an error as the caller of _mexe sees it
Err(kind, status, reason, body) ==
  [kind |-> kind, status |-> status, reason |-> reason, body |-> body]

NoError == Err("none", 0, <<"reason", 0>>, 0)

PlainError(kind) == Err(kind, 0, <<"reason", 0>>, 0)

\* the kinds of retry_handler a caller passes to _mexe: None, the bound
\* method Layer1._retry_handler, and a four-argument callable that forwards
\* (response, i, next_sleep) to Layer1._retry_handler
Handlers == {"none", "layer1", "adapter"}

(* ------------------------------------------------------------------------ *)
(* Layer1: the response classifier                                          *)
(* ------------------------------------------------------------------------ *)

\* the option max_retry_delay of section TxBoto as the configuration holds
\* it: <<>> when it is not set, else its value (30 s), in milliseconds
MaxRetryDelayOptions == {<<>>, <<30000>>}

\* the Python the package runs on
Pythons == {"py2", "py3"}

\* Config.get(section, name, default): ConfigParser.get returns the option as
\* the string the file holds; the default is returned as it is passed
ConfigGet(cfg, default) ==
  IF cfg = <<>> THEN [type |-> "number", val |-> default]
  ELSE [type |-> "str", val |-> cfg[1]]

\* min(a, cap) for a number a: Python 2 orders every number before every
\* string, so the number is the minimum; Python 3 raises TypeError
PyMin(a, cap, py) ==
  IF cap.type = "number" THEN [ok |-> TRUE, val |-> Min(a, cap.val)]
  ELSE IF py = "py2" THEN [ok |-> TRUE, val |-> a]
  ELSE [ok |-> FALSE, val |-> 0]

\* next_sleep of _mexe on attempt idx, in milliseconds, for the sample rnd
\* of random.random() in thousandths
StandardSleep(rnd, idx, cfg, py) ==
  PyMin(rnd * Pow2(idx), ConfigGet(cfg, MaxRetryDelay), py)

\* Layer1._exponential_time(i) under a configuration and a Python
ExponentialTimeWith(idx, cfg, py) ==
  IF idx = 0 THEN [ok |-> TRUE, val |-> 0]
  ELSE PyMin(ThruputBase * Pow2(idx), ConfigGet(cfg, MaxRetryDelay), py)

\* Layer1._exponential_time(i), in milliseconds, with max_retry_delay not
\* configured
ExponentialTime(i) == ExponentialTimeWith(i, <<>>, "py3").val

\* marker in data.get('__type'): the discriminator names that exception
Contains(marker, dtype) == marker = dtype

\* what one call of the classifier produces: it returns None ("none"),
\* returns the tuple (msg, i, next_sleep) ("status") or raises ("raise");
\* events and renew are its effects on the connection
Decision(kind, msg, idx, sleep, err, events, renew) ==
  [kind |-> kind, msg |-> msg, i |-> idx, sleep |-> sleep, error |-> err,
   events |-> events, renew |-> renew]

\* the error classes raised with (response.status, response.reason, data)
ResponseErr(kind, response) ==
  Err(kind, response.code, code2status(response.code), response.body)

\* Layer1._retry_handler(response, i, next_sleep)
RetryHandler(response, i, validate) ==
  LET is400   == response.code = 400
      thruput == is400 /\ Contains(ThruputError, response.dtype)
      expired == is400 /\ ~thruput
                 /\ Contains(SessionExpiredError, response.dtype)
      condchk == is400 /\ ~thruput /\ ~expired
                 /\ Contains(ConditionalCheckFailedError, response.dtype)
      invalid == is400 /\ ~thruput /\ ~expired /\ ~condchk
                 /\ Contains(ValidationError, response.dtype)
      other   == is400 /\ ~thruput /\ ~expired /\ ~condchk /\ ~invalid
      events  == IF thruput THEN 1 ELSE 0
      \* the local i after the status-400 block (i += 1 on throughput)
      i1      == IF thruput THEN i + 1 ELSE i
      \* status after the status-400 block; kind "none" is status = None
      status1 ==
        IF thruput
          THEN Decision("status", "thruput", i1, ExponentialTime(i),
                        NoError, events, FALSE)
        ELSE IF expired
          THEN Decision("status", "renew", i + ConnNumRetries - 1, 0,
                        NoError, events, TRUE)
          ELSE Decision("none", "-", i, 0, NoError, events, FALSE)
      badcrc  == validate /\ response.crc # "absent"
                 /\ response.crc = "mismatch"
  IN  IF thruput /\ i1 = NumberRetries
        THEN Decision("raise", "-", i1, 0,
               ResponseErr("DynamoDBThroughputExceededError", response),
               events, FALSE)
      ELSE IF condchk
        THEN Decision("raise", "-", i, 0,
               ResponseErr("DynamoDBConditionalCheckFailedError", response),
               0, FALSE)
      ELSE IF invalid
        THEN Decision("raise", "-", i, 0,
               ResponseErr("DynamoDBValidationError", response), 0, FALSE)
      ELSE IF other
        THEN Decision("raise", "-", i, 0,
               ResponseErr("DynamoDBResponseError", response), 0, FALSE)
      ELSE IF badcrc
        THEN Decision("status", "crc32", i1 + 1, ExponentialTime(i1),
                      NoError, events, status1.renew)
        ELSE status1

\* defer.maybeDeferred(retry_handler, response, response_body, i, next_sleep):
\* the bound method Layer1._retry_handler takes three arguments, so the call
\* with four raises TypeError; the adapter forwards (response, i, next_sleep)
CallRetryHandler(handler, response, i, validate) ==
  IF handler = "layer1" /\ MexeHandlerArgs # RetryHandlerParams
    THEN Decision("raise", "-", i, 0, PlainError("TypeError"), 0, FALSE)
    ELSE RetryHandler(response, i, validate)

(* ------------------------------------------------------------------------ *)
(* HTTPRequest: the headers of a request and their authorization            *)
(* ------------------------------------------------------------------------ *)

\* the characters of a caller's header value: an alphanumeric one, one that
\* quote() escapes, and the percent sign, which is in the safe set
Chars == {"a", " ", "%"}

\* header values, as sequences of characters
HeaderValues == UNION {[1..n -> Chars] : n \in 0..MaxHeaderLen}

\* the header values of headers the caller supplies besides these
CallerHeaders == {"X-Amz-Target"}

\* quote(c, safe) with the safe set of authorize: a space becomes %20,
\* alphanumerics and the safe characters, '%' among them, stay
QuoteChar(c) == IF c = " " THEN <<"%", "2", "0">> ELSE <<c>>

RECURSIVE Quote(_)
\* quote(val.encode('utf-8'), safe)
Quote(val) ==
  IF val = <<>> THEN <<>> ELSE QuoteChar(Head(val)) \o Quote(Tail(val))

\* quote(c) with the default safe set '/', which escapes the percent sign too
QuoteCharDefault(c) ==
  IF c = " " THEN <<"%", "2", "0">>
  ELSE IF c = "%" THEN <<"%", "2", "5">>
  ELSE <<c>>

RECURSIVE QuoteDefault(_)
QuoteDefault(val) ==
  IF val = <<>> THEN <<>>
  ELSE QuoteCharDefault(Head(val)) \o QuoteDefault(Tail(val))

\* txboto.UserAgent, a text with spaces and slashes in it
UserAgent == <<"T", "x", "/", " ", "P", "y">>

\* the value 'chunked' of Transfer-Encoding
Chunked == <<"c", "h", "u", "n", "k", "e", "d">>

\* another value of Transfer-Encoding
Gzip == <<"g", "z", "i", "p">>

\* the HTTP methods of a request
Methods == {"POST", "PUT"}

\* who constructs the request: build_base_http_request, or a caller of the
\* HTTPRequest constructor itself
Builders == {"build_base_http_request", "HTTPRequest"}

\* a map without the key k
DelHeader(h, k) == [n \in DOMAIN h \ {k} |-> h[n]]

\* whether the constructor is in the case where it drops the header
\* Transfer-Encoding: chunked
DropsChunked(method, h) ==
  /\ "Transfer-Encoding" \in DOMAIN h
  /\ h["Transfer-Encoding"] = Chunked
  /\ method # "PUT"

\* a constructor that leaves the headers as they are given
ConstructorHeadersKeepsChunked(method, h) == h

\* HTTPRequest.__init__: self.headers, given the headers h
ConstructorHeaders(method, h) ==
  IF DropsChunked(method, h) THEN DelHeader(h, "Transfer-Encoding") ELSE h

\* HTTPRequest.__init__: whether self.headers is the very map it was given
\* (self.headers = headers) and not a copy of it
ConstructorAliases(method, h) == ~DropsChunked(method, h)

\* a build_base_http_request that hands the caller's map to the constructor
BuildAliasesNoCopy(by, method, h) == ConstructorAliases(method, h)

\* whether request.headers is the caller's own map: never after
\* build_base_http_request, which passes headers.copy() to the constructor
BuildAliases(by, method, h) ==
  IF by = "build_base_http_request" THEN FALSE
  ELSE ConstructorAliases(method, h)

\* str(len(body))
StrLen(b) == <<ToString(Len(b))>>

\* self.headers[k] = v
SetHeader(h, k, v) == [n \in DOMAIN h \cup {k} |-> IF n = k THEN v ELSE h[n]]

\* the signature the signer computes on its stamp-th call
Signature(stamp) == <<"sig", ToString(stamp)>>

\* connection._auth_handler.add_auth(request): the signer stamps the request
\* with a signature computed anew at each call
AddAuth(h, stamp) == SetHeader(h, "Authorization", Signature(stamp))

\* an authorize that keeps the signature of the first call
AuthorizeHeadersSignOnce(h, quoted, stamp, b) ==
  LET h1 == IF ~quoted THEN [k \in DOMAIN h |-> Quote(h[k])] ELSE h
      h2 == SetHeader(h1, "User-Agent", UserAgent)
      h3 == IF quoted THEN h2 ELSE AddAuth(h2, stamp)
  IN IF /\ "Content-Length" \notin DOMAIN h3
        /\ \/ "Transfer-Encoding" \notin DOMAIN h3
           \/ h3["Transfer-Encoding"] # Chunked
       THEN SetHeader(h3, "Content-Length", StrLen(b))
       ELSE h3

\* an authorize that quotes at every call, with the default safe set
AuthorizeHeadersRequote(h, quoted, stamp, b) ==
  LET h1 == [k \in DOMAIN h |-> QuoteDefault(h[k])]
      h2 == SetHeader(h1, "User-Agent", UserAgent)
      h3 == AddAuth(h2, stamp)
  IN IF /\ "Content-Length" \notin DOMAIN h3
        /\ \/ "Transfer-Encoding" \notin DOMAIN h3
           \/ h3["Transfer-Encoding"] # Chunked
       THEN SetHeader(h3, "Content-Length", StrLen(b))
       ELSE h3

\* HTTPRequest.authorize: the headers it leaves on the request, from the
\* headers h, the flag _headers_quoted, the body b; stamp counts the calls
AuthorizeHeaders(h, quoted, stamp, b) ==
  LET h1 == IF ~quoted THEN [k \in DOMAIN h |-> Quote(h[k])] ELSE h
      h2 == SetHeader(h1, "User-Agent", UserAgent)
      h3 == AddAuth(h2, stamp)
  IN IF /\ "Content-Length" \notin DOMAIN h3
        /\ \/ "Transfer-Encoding" \notin DOMAIN h3
           \/ h3["Transfer-Encoding"] # Chunked
       THEN SetHeader(h3, "Content-Length", StrLen(b))
       ELSE h3

(* ------------------------------------------------------------------------ *)
(* regioninfo: the endpoints documents                                      *)
(* ------------------------------------------------------------------------ *)

Services == {"dynamodb", "s3"}

Regions == 1..MaxRegions

\* the maps from some regions to the endpoint v
RegionMaps(v) == UNION {[R -> {v}] : R \in SUBSET Regions}

\* the endpoints documents whose endpoints are all v: maps from some
\* services to maps from some regions to an endpoint
EndpointMaps(v) == UNION {[S -> RegionMaps(v)] : S \in SUBSET Services}

\* x.update(y) of two dicts
Update(x, y) ==
  [k \in DOMAIN x \cup DOMAIN y |-> IF k \in DOMAIN y THEN y[k] ELSE x[k]]

\* defaults.setdefault(service, {})
SetDefault(d, service) ==
  IF service \in DOMAIN d THEN d
  ELSE [k \in DOMAIN d \cup {service} |-> IF k = service THEN <<>> ELSE d[k]]

\* a merge that is defaults.update(additions)
MergeEndpointsShallow(d, a, todo) == Update(d, a)

RECURSIVE MergeEndpoints(_, _, _)
\* merge_endpoints(defaults, additions): the loop over the services of
\* additions still to do
MergeEndpoints(d, a, todo) ==
  IF todo = {} THEN d
  ELSE LET service == CHOOSE x \in todo : TRUE
           d1 == SetDefault(d, service)
           d2 == [d1 EXCEPT ![service] = Update(d1[service], a[service])]
       IN MergeEndpoints(d2, a, todo \ {service})

(* ------------------------------------------------------------------------ *)
(* plugin: the registry of subclasses                                       *)
(* ------------------------------------------------------------------------ *)

\* the capabilities a plugin class declares or a caller requests
Capabilities == {"hmac-v4", "s3"}

\* the capability lists of the subclasses: an empty one is that of a
\* subclass that declares none and inherits Plugin.capability
CapabilityLists == SUBSET Capabilities

\* what a caller passes as requested_capability: None or a list
Requests ==
  {[none |-> TRUE, list |-> <<>>]} \cup
  {[none |-> FALSE, list |-> l] :
     l \in UNION {[1..n -> Capabilities] : n \in 0..MaxRequested}}

\* Plugin.is_capable that accepts a class offering any requested capability
IsCapableAny(capability, requested_capability) ==
  \/ requested_capability = <<>>
  \/ \E k \in 1..Len(requested_capability) :
       requested_capability[k] \in capability

RECURSIVE IsCapable(_, _)
\* Plugin.is_capable: the loop over the requested capabilities, False at
\* the first one the class does not declare
IsCapable(capability, requested_capability) ==
  IF requested_capability = <<>> THEN TRUE
  ELSE IF Head(requested_capability) \notin capability THEN FALSE
  ELSE IsCapable(capability, Tail(requested_capability))

RECURSIVE GetPluginFrom(_, _, _, _)
\* the loop of get_plugin over cls.__subclasses__() from position k on;
\* a handler is named by its position in the registry
GetPluginFrom(subs, requested_capability, k, result) ==
  IF k > Len(subs) THEN result
  ELSE GetPluginFrom(subs, requested_capability, k + 1,
         IF IsCapable(subs[k], requested_capability)
           THEN Append(result, k) ELSE result)

\* get_plugin(cls, requested_capability): None and the empty list both
\* become the empty list
GetPlugin(subs, request) ==
  GetPluginFrom(subs,
                IF request.none \/ request.list = <<>> THEN <<>>
                ELSE request.list,
                1, <<>>)

(* ------------------------------------------------------------------------ *)
(* dynamodb2.results: ResultSet                                             *)
(* ------------------------------------------------------------------------ *)

\* the limits a caller gives to to_call: none, a negative one, 0..MaxLimit
Limits == {<<>>} \cup {<<n>> : n \in (-1)..MaxLimit}

\* the page sizes a caller gives to ResultSet(max_page_size)
PageSizes == {<<>>, <<2>>}

\* the truth value of an optional number: None and 0 are false
Truthy(opt) == opt # <<>> /\ opt[1] # 0

\* kwargs.pop('limit', None), a negative limit becoming None
ToCallLimit(l) == IF l # <<>> /\ l[1] < 0 THEN <<>> ELSE l

\* a limit test that lets one item too many through
LimitExceededLate(l) == l < -1

\* self._limit < 0 after the decrement of __next__
LimitExceeded(l) == l < 0

\* self._max_page_size after lines 182-184 of fetch_more
CappedPageSize(size, lim) ==
  IF Truthy(lim) /\ Truthy(size) /\ size[1] > lim[1] THEN lim ELSE size

\* keyword arguments that never carry the key to start from
FetchKwargsFromStart(last_key, size, lim) ==
  [exclusive_start_key |-> 0,
   limit |-> IF CappedPageSize(size, lim) # <<>>
               THEN CappedPageSize(size, lim) ELSE lim]

\* the keyword arguments fetch_more adds for the callable:
\* exclusive_start_key when a last key was seen (0 is its absence), limit
\* from the page size or else from the limit (<<>> is its absence)
FetchKwargs(last_key, size, lim) ==
  [exclusive_start_key |-> last_key,
   limit |-> IF CappedPageSize(size, lim) # <<>>
               THEN CappedPageSize(size, lim) ELSE lim]

\* self._results_left after lines 203-212 of fetch_more, for a page of n
\* results with the key last_key
ResultsLeftAfter(left, lim, n, last_key) ==
  IF last_key = 0 THEN FALSE
  ELSE IF lim # <<>> /\ lim[1] >= 0 /\ lim[1] - n <= 0 THEN FALSE
  ELSE left

\* the keys handed to a BatchGetResultSet: 1..n in this order
KeyLists == {[k \in 1..n |-> k] : n \in 0..MaxKeys}

\* q[:n] and q[n:] of a list
Take(q, n) == SubSeq(q, 1, Min(n, Len(q)))
Drop(q, n) == SubSeq(q, Min(n, Len(q)) + 1, Len(q))

\* what a page says about each key it was asked for: its item, nothing
\* (the table has no such item), or the key again among unprocessed_keys
KeyOutcomes == {"item", "absent", "unprocessed"}

RECURSIVE Picked(_, _, _)
\* the keys of ks with the outcome o in the page, in their order
Picked(ks, page, o) ==
  IF ks = <<>> THEN <<>>
  ELSE (IF page[Head(ks)] = o THEN <<Head(ks)>> ELSE <<>>)
         \o Picked(Tail(ks), page, o)

\* self._keys_left after the page arrived: a page of n = 0 results ends
\* fetch_more at line 238, before the loop of lines 242-246 that re-inserts
\* (key n of the page goes to position n)
KeysLeftAfter(left, n, unprocessed) ==
  IF n = 0 THEN left ELSE unprocessed \o left

(* ------------------------------------------------------------------------ *)
(* dynamodb.batch: BatchList and BatchWriteList                             *)
(* ------------------------------------------------------------------------ *)

\* the names of the tables batches are made for
TableNames == {"a", "b"}

\* the keys (or items) of a table that batches name
BatchKeys == {1, 2}

\* what add_batch is given: a table and keys, possibly none
Batches == [table : TableNames, keys : SUBSET BatchKeys]

\* d[name] = b of a dict
Store(d, name, b) ==
  [t \in DOMAIN d \cup {name} |-> IF t = name THEN b ELSE d[t]]

RECURSIVE BatchListToDict(_, _)
\* BatchList.to_dict: the loop over the batches, in order, from the dict d;
\* a batch without keys is left out
BatchListToDict(list, d) ==
  IF list = <<>> THEN d
  ELSE BatchListToDict(Tail(list),
         IF Head(list).keys # {}
           THEN Store(d, Head(list).table, Head(list).keys) ELSE d)

\* whether m is an UnprocessedKeys map DynamoDB can answer the request
\* items d with: some of the tables asked for, each with some, not none, of
\* its keys
UnprocessedOf(m, d) ==
  /\ DOMAIN m \subseteq DOMAIN d
  /\ \A t \in DOMAIN m : m[t] # {} /\ m[t] \subseteq d[t]

\* not self.unprocessed: None or an empty dict
NoUnprocessed(u) == u.none \/ u.map = <<>>

\* lists that ask again for every key of the tables of u
RebuiltListsAllKeys(u) ==
  {list \in [1..Cardinality(DOMAIN u) ->
               {[table |-> t, keys |-> BatchKeys] : t \in DOMAIN u}] :
     \A t \in DOMAIN u : \E k \in 1..Len(list) : list[k].table = t}

\* the lists resubmit can build from the unprocessed keys u: one batch for
\* each table of u with the keys of u, in the order the dict is iterated
RebuiltLists(u) ==
  {list \in [1..Cardinality(DOMAIN u) ->
               {[table |-> t, keys |-> u[t]] : t \in DOMAIN u}] :
     \A t \in DOMAIN u : \E k \in 1..Len(list) : list[k].table = t}

\* what add_batch of a BatchWriteList is given: a table, the items to put
\* and the keys to delete
WriteBatches ==
  [table : TableNames, puts : SUBSET BatchKeys, deletes : SUBSET BatchKeys]

\* BatchWrite.to_dict: the operations of one batch, a PutRequest for each
\* item and a DeleteRequest for each key
OpList(b) ==
  {<<"PutRequest", k>> : k \in b.puts}
    \cup {<<"DeleteRequest", k>> : k \in b.deletes}

\* d[table_name] = batch_dict
StoreOps(d, name, ops) == Store(d, name, ops)

RECURSIVE BatchWriteListToDict(_, _)
\* BatchWriteList.to_dict: the loop over the batches, in order, from the
\* dict d
BatchWriteListToDict(list, d) ==
  IF list = <<>> THEN d
  ELSE BatchWriteListToDict(Tail(list),
         StoreOps(d, Head(list).table, OpList(Head(list))))

(* ------------------------------------------------------------------------ *)
(* regioninfo: load_regions                                                 *)
(* ------------------------------------------------------------------------ *)

\* the values of an environment variable or option: unset, empty, a path
UserPath == "/user.json"
OtherPath == "/other.json"
ConfigPath == "/config.json"

EnvValues == {<<>>, <<"">>, <<UserPath>>, <<OtherPath>>}

OptionValues == {<<>>, <<ConfigPath>>}

\* os.environ.get(name), config.get(...): the truth value of an optional
\* string, None and '' being false
IsSet(v) == v # <<>> /\ v # <<"">>

\* load_endpoint_json(path) of a user's file: each file names its own
\* endpoint for region 1 of s3
LoadEndpointJson(path) == [sv \in {"s3"} |-> [r \in {1} |-> path]]

\* os.environ['BOTO_ENDPOINTS'], a KeyError when the variable is unset
EnvironLookup(env) ==
  IF env.BOTO_ENDPOINTS = <<>> THEN [ok |-> FALSE, val |-> <<>>]
  ELSE [ok |-> TRUE, val |-> env.BOTO_ENDPOINTS]

\* load_regions(): the defaults, the path of the overlay from the
\* environment or else from the configuration, the merge
LoadRegionsFrom(env, option, doc) ==
  LET found == IF IsSet(env.TXBOTO_ENDPOINTS) THEN EnvironLookup(env)
               ELSE IF IsSet(option) THEN [ok |-> TRUE, val |-> option]
               ELSE [ok |-> TRUE, val |-> <<>>]
  IN IF ~found.ok
       THEN [ok |-> FALSE, error |-> "KeyError", endpoints |-> <<>>]
     ELSE IF IsSet(found.val)
       THEN [ok |-> TRUE, error |-> "-",
             endpoints |->
               MergeEndpoints(doc, LoadEndpointJson(found.val[1]),
                              DOMAIN LoadEndpointJson(found.val[1]))]
     ELSE [ok |-> TRUE, error |-> "-", endpoints |-> doc]

(* ------------------------------------------------------------------------ *)
(* State                                                                    *)
(* ------------------------------------------------------------------------ *)

VARIABLES
  pc,               \* position: idle, loop, await, returned, raised
  num_retries,      \* _mexe's local num_retries, the budget N
  retry_handler,    \* the kind of retry_handler passed to _mexe
  i,                \* _mexe's attempt index
  next_sleep,       \* _mexe's local next_sleep; it is read only between the
                    \* loop top that sets it and the end of that iteration,
                    \* and is kept 0 outside
  response,         \* _mexe's local response
  body,             \* _mexe's local body (0 is None)
  ex,               \* _mexe's local ex ("None" or the exception)
  returnValue,      \* _mexe's local returnValue
  error,            \* the exception the invocation ended with
  request_hook,     \* whether connection.request_hook is set
  hook_raises,      \* what request_hook.handle_request_data raises when it is
                    \* called, "None" when it completes
  url,              \* request.url, the target of every send
  validate_checksums,          \* Layer1._validate_checksums
  throughput_exceeded_events,  \* Layer1.throughput_exceeded_events
  provider,         \* how often Layer1._get_session_token replaced the provider
  sends,            \* history: calls of send_request
  sleeps,           \* history: calls of time.sleep
  last_sleep,       \* history: argument of the time.sleep since the last
                    \* send, -1 when there was none
  hook_calls,       \* history: calls of request_hook.handle_request_data
  attempt,          \* history: the attempt index of the most recent send
  received,         \* history: the response the most recent send delivered
  last_exc,         \* history: the exception the most recent send raised
  last_decision,    \* history: what the classifier did with that response
  ending,           \* history: how the invocation ended, "-" while it runs
  headers,          \* request.headers, a map from header names to values
  headers_quoted,   \* request._headers_quoted
  request_body,     \* request.body
  authorizes,       \* number of calls of request.authorize so far
  given_headers,    \* history: the headers the request was built with
  first_headers,    \* history: the headers after the first authorize
  method,           \* request.method
  built_by,         \* who constructed the request
  params,           \* request.params, the set of its parameter names
  caller_headers,   \* the headers map the caller passed, as it is now
  caller_params,    \* the params map the caller passed, as it is now
  max_retry_delay,  \* the configured option max_retry_delay, <<>> if unset
  python,           \* the Python the package runs on
  at_index,         \* the attempt index a delay is asked for
  curve,            \* which delay was computed for it, "-" before
  delay,            \* that delay, or the failure to compute it
  entry,            \* history: through which method the loop was entered
  thruput_responses,  \* history: throughput-exceeded 400 responses that
                      \* reached a classifier
  task_pc,          \* of each concurrent loop: idle, await, sleep, done
  task_i,           \* of each concurrent loop: its attempt index
  reactor,          \* the loop whose time.sleep holds the reactor thread,
                    \* 0 when the thread is free
  defaults,         \* the endpoints document merge_endpoints updates
  additions,        \* the overlay document
  given_defaults,   \* history: defaults as it was passed
  merged,           \* whether merge_endpoints has returned
  subclasses,       \* cls.__subclasses__(): the capability list of each
                    \* direct subclass, in the order of their definition
  requested,        \* the request get_plugin was called with
  plugin_result,    \* what get_plugin returned: positions in subclasses
  plugin_called,    \* whether get_plugin has been called
  rs_pc,            \* the result set: new, ready (to_call was called),
                    \* fetching (the deferred of fetch_more is pending)
  results,          \* len(self._results)
  offset,           \* self._offset
  results_left,     \* self._results_left
  last_key_seen,    \* self._last_key_seen: 0 is None, k the key of page k
  fetches,          \* self._fetches
  max_page_size,    \* self._max_page_size: <<>> is None
  limit,            \* self._limit: <<>> is None
  given_limit,      \* history: the limit to_call was called with
  sent_kwargs,      \* history: exclusive_start_key (0 when absent) and limit
                    \* (<<>> when absent) of each call of the callable
  pages,            \* history: the last_key of each page received, 0 is None
  yielded,          \* history: result items __next__ has returned
  stopped,          \* history: whether the last __next__ raised StopIteration
  keys_left,        \* self._keys_left of a BatchGetResultSet
  keys_sent,        \* kwargs['keys'] of the call in flight, <<>> when none
  unprocessed_keys, \* history: unprocessed_keys of the last page
  processed,        \* history: the keys some page accounted for, with an
                    \* item or as not in the table
  given_keys,       \* history: the keys the result set was constructed with
  batch_list,       \* the BatchList itself: its batches, each with the name
                    \* of its table and its keys
  unprocessed,      \* self.unprocessed of the BatchList
  requests,         \* history: requests layer2.batch_get_item has sent
  last_request,     \* history: the request items of the last of them
  reported,         \* history: UnprocessedKeys of the most recent response
  last_call,        \* history: the method of the BatchList called last
  resubmit_result,  \* history: what the last resubmit returned
  write_list,       \* the BatchWriteList itself: its batches, each with the
                    \* name of its table, its puts and its deletes
  write_request,    \* what to_dict returned
  write_converted,  \* whether to_dict has been called
  environ,          \* os.environ: the two variables load_regions reads,
                    \* <<>> when unset, else <<value>>
  endpoints_path,   \* the option endpoints_path of section TxBoto, <<>> when
                    \* unset
  bundled,          \* the document in txboto/endpoints.json
  regions_loaded,   \* whether load_regions has been called
  load_result,      \* how it ended: the endpoints it returned or the error
  run               \* history: what all attempts so far have in common

\* the plugin registry and a call of get_plugin
plugins == <<subclasses, requested, plugin_result, plugin_called>>

\* the result set and its history
resultset == <<rs_pc, results, offset, results_left, last_key_seen, fetches,
               max_page_size, limit, given_limit, sent_kwargs, pages,
               yielded, stopped>>

\* what a BatchGetResultSet has besides
batchget == <<keys_left, keys_sent, unprocessed_keys, processed, given_keys>>

\* the batch list of reads and its history
batchlist == <<batch_list, unprocessed, requests, last_request, reported,
               last_call, resubmit_result>>

\* the batch list of writes
batchwrite == <<write_list, write_request, write_converted>>

\* the sources of the endpoints and a call of load_regions
regionload == <<environ, endpoints_path, bundled, regions_loaded,
                load_result>>

\* the modules beside the connection
library == <<plugins, resultset, batchget, batchlist, batchwrite,
             regionload>>

vars == <<pc, num_retries, retry_handler, i, next_sleep, response, body, ex,
          returnValue, error, request_hook, validate_checksums,
          throughput_exceeded_events, provider, sends, sleeps, last_sleep,
          hook_calls, attempt, received, last_exc, last_decision, run,
          hook_raises, url, ending, headers, headers_quoted, request_body,
          authorizes, given_headers, first_headers, method, built_by,
          params, caller_headers, caller_params, max_retry_delay, python,
          at_index, curve, delay, entry, thruput_responses, task_pc, task_i,
          reactor, defaults, additions, given_defaults, merged, library>>

hist == <<attempt, received, last_exc, last_decision>>

\* the delay computations
backoff == <<at_index, curve, delay>>

\* the concurrent loops
tasks == <<task_pc, task_i, reactor>>

\* the endpoints documents
endpoints == <<defaults, additions, given_defaults, merged>>

\* the connection's attributes, the configuration and the Python
config == <<request_hook, validate_checksums, hook_raises, url,
            max_retry_delay, python>>

\* what no step of _mexe changes but its entry and the classification
fixed == <<config, backoff, tasks, endpoints, library>>

conn == <<fixed, entry, thruput_responses>>

\* the locals of _mexe, the state of the Layer1 connection, the history
mexe == <<pc, num_retries, retry_handler, i, next_sleep, response, body, ex,
          returnValue, error, throughput_exceeded_events, provider, sends,
          sleeps, last_sleep, hook_calls, hist, run, ending, entry,
          thruput_responses>>

\* the request and its history
req == <<headers, headers_quoted, request_body, authorizes, given_headers,
         first_headers, method, built_by, params, caller_headers,
         caller_params>>

\* the connection, its request, the delays, the loops and the endpoints
connection == <<mexe, config, req, backoff, tasks, endpoints>>

\* all but the plugin registry, all but the result sets
beside_plugins == <<connection, resultset, batchget, batchlist, batchwrite,
                    regionload>>
beside_results == <<connection, plugins, batchlist, batchwrite, regionload>>
beside_batches == <<connection, plugins, resultset, batchget, batchwrite,
                    regionload>>
beside_writes == <<connection, plugins, resultset, batchget, batchlist,
                   regionload>>
beside_regions == <<connection, plugins, resultset, batchget, batchlist,
                    batchwrite>>

NoReturn == [response |-> NoResponse, body |-> 0]

\* the budgets _mexe is called with; Layer1.make_request passes NumberRetries
\* with its classifier
Budgets(handler) ==
  IF handler = "none" THEN 0..MaxBudget ELSE {NumberRetries}


\* the class of one attempt's outcome, for the history variable run
OutcomeClass(r) ==
  IF r.code = 503 THEN "503"
  ELSE IF r.code \in RetryCodes THEN "5xx"
  ELSE IF r.code = 400 /\ r.dtype = ThruputError THEN "thruput"
  ELSE IF r.code \in 200..299 THEN "2xx"
  ELSE "other"

\* run after one more attempt of class c: "503" while every attempt got a
\* 503, "5xx" while every attempt got one of 500/502/503/504, "thruput" while
\* every attempt got a 400 throughput-exceeded, "recovered" once such a run
\* of 5xx responses (possibly empty) is followed by a 2xx, "other" otherwise
Extend(old, c) ==
  IF c = "2xx"
    THEN IF old \in {"empty", "503", "5xx"} THEN "recovered" ELSE "other"
  ELSE IF c = "other" \/ old \in {"recovered", "other"} THEN "other"
  ELSE IF old = "empty" \/ old = c THEN c
  ELSE IF old \in {"503", "5xx"} /\ c \in {"503", "5xx"} THEN "5xx"
  ELSE "other"

\* no plugin class is defined and get_plugin is not called
IdlePlugins ==
  /\ subclasses = <<>>
  /\ requested = [none |-> TRUE, list |-> <<>>]
  /\ plugin_result = <<>>
  /\ plugin_called = TRUE

\* ResultSet.__init__(max_page_size)
NewResultSet(sizes) ==
  /\ rs_pc = "new"
  /\ results = 0
  /\ offset = 0
  /\ results_left = TRUE
  /\ last_key_seen = 0
  /\ fetches = 0
  /\ max_page_size \in sizes
  /\ limit = <<>>
  /\ given_limit = <<>>
  /\ sent_kwargs = <<>>
  /\ pages = <<>>
  /\ yielded = 0
  /\ stopped = FALSE

\* a result set nothing is done with
IdleResultSet == NewResultSet({<<>>})

\* BatchGetResultSet.__init__(keys=ks): no call is in flight
NewBatchGet(ks) ==
  /\ keys_left \in ks
  /\ given_keys = keys_left
  /\ keys_sent = <<>>
  /\ unprocessed_keys = <<>>
  /\ processed = {}

\* no keys are handed over
IdleBatchGet == NewBatchGet({<<>>})

\* BatchList.__init__(layer2)
NewBatchList ==
  /\ batch_list = <<>>
  /\ unprocessed = [none |-> TRUE, map |-> <<>>]
  /\ requests = 0
  /\ last_request = <<>>
  /\ reported = [none |-> TRUE, map |-> <<>>]
  /\ last_call = "-"
  /\ resubmit_result = "-"

\* BatchWriteList.__init__(layer2); converted tells whether to_dict was
\* called
NewBatchWriteList(converted) ==
  /\ write_list = <<>>
  /\ write_request = <<>>
  /\ write_converted = converted

\* a batch list of writes nothing is done with
IdleBatchWriteList == NewBatchWriteList(TRUE)

\* the process before load_regions is called, or with called without it:
\* its environment from envs, the bundled document from docs
NewProcess(envs, paths, docs, called) ==
  /\ environ \in envs
  /\ endpoints_path \in paths
  /\ bundled \in docs
  /\ regions_loaded = called
  /\ load_result = [ok |-> TRUE, error |-> "-", endpoints |-> <<>>]

\* a process without overlay that loads no regions
IdleProcess ==
  NewProcess({[TXBOTO_ENDPOINTS |-> <<>>, BOTO_ENDPOINTS |-> <<>>]},
             {<<>>}, {<<>>}, TRUE)

\* the modules beside the connection are not used
InitLibrary ==
  /\ IdleProcess
  /\ IdlePlugins
  /\ IdleResultSet
  /\ IdleBatchGet
  /\ NewBatchList
  /\ IdleBatchWriteList

\* the configuration and the Python of the process, and an attempt index
\* for which no delay has been asked yet
InitEnv(cfgs, pys, is) ==
  /\ InitLibrary
  /\ task_pc = [t \in 1..NumTasks |-> "done"]
  /\ task_i = [t \in 1..NumTasks |-> 0]
  /\ reactor = 0
  /\ defaults = <<>>
  /\ additions = <<>>
  /\ given_defaults = <<>>
  /\ merged = TRUE
  /\ max_retry_delay \in cfgs
  /\ python \in pys
  /\ at_index \in is
  /\ curve = "-"
  /\ delay = [ok |-> TRUE, val |-> 0]

\* the state before a call; hs is the set of retry_handler kinds the caller
\* may pass, hx what the request hook may raise. validate_checksums is an
\* attribute of Layer1 connections only.
InitMexe(hs, hx) ==
  /\ pc = "idle"
  /\ num_retries = 0
  /\ retry_handler \in hs
  /\ i = 0
  /\ next_sleep = 0
  /\ response = NoResponse
  /\ body = 0
  /\ ex = "None"
  /\ returnValue = NoReturn
  /\ error = NoError
  /\ entry = "-"
  /\ thruput_responses = 0
  /\ hook_raises \in hx
  /\ request_hook \in IF hook_raises = "None" THEN BOOLEAN ELSE {TRUE}
  /\ url = "original"
  /\ ending = "-"
  /\ validate_checksums \in
       IF retry_handler = "none" THEN {FALSE} ELSE BOOLEAN
  /\ throughput_exceeded_events = 0
  /\ provider = 0
  /\ sends = 0
  /\ sleeps = 0
  /\ last_sleep = -1
  /\ hook_calls = 0
  /\ attempt = 0
  /\ received = NoResponse
  /\ last_exc = "None"
  /\ last_decision = "-"
  /\ run = "empty"

\* a request after its construction by one of bys, with a method of ms, a
\* body of bs, and the caller's headers: X-Amz-Target with a value of vs,
\* Transfer-Encoding as tes says, and Content-Length (as Layer1.make_request
\* supplies it) or not
InitRequestWith(vs, bs, ms, tes, bys) ==
  /\ request_body \in bs
  /\ method \in ms
  /\ built_by \in bys
  /\ \E v \in vs : \E withLength \in BOOLEAN : \E te \in tes :
       given_headers =
         [k \in CallerHeaders
                  \cup (IF withLength THEN {"Content-Length"} ELSE {})
                  \cup (IF te = "absent" THEN {} ELSE {"Transfer-Encoding"})
            |-> IF k = "Content-Length" THEN StrLen(request_body)
                ELSE IF k = "Transfer-Encoding"
                  THEN (IF te = "chunked" THEN Chunked ELSE Gzip)
                ELSE v]
  /\ headers = ConstructorHeaders(method, given_headers)
  /\ caller_headers = given_headers
  /\ params \in {{}, {"TableName"}}
  /\ caller_params = params
  /\ headers_quoted = FALSE
  /\ authorizes = 0
  /\ first_headers = headers

\* the state before a call of _mexe on a request with one header value,
\* with max_retry_delay not configured
InitWith(hs, hx) ==
  /\ InitMexe(hs, hx)
  /\ InitEnv({<<>>}, {"py3"}, {0})
  /\ InitRequestWith({<<"a", " ">>}, {<<"b">>}, {"POST"}, {"absent"},
                     {"build_base_http_request"})
  /\ "Content-Length" \in DOMAIN headers
  /\ params = {}

\* the program as it is wired: _mexe without a classifier, and with the bound
\* method Layer1._retry_handler as Layer1.make_request passes it
\* with no request hook or one that completes
Init == InitWith({"none", "layer1"}, {"None"})

\* _mexe with a classifier that forwards to Layer1._retry_handler
InitAdapter == InitWith({"adapter"}, {"None"})

\* the program as it is wired, with a request hook that raises
InitHook == InitWith({"none", "layer1"}, HookExceptions)

\* a request of any header value and body, before any call
InitRequest ==
  /\ InitMexe({"none"}, {"None"})
  /\ InitEnv({<<>>}, {"py3"}, {0})
  /\ ~request_hook
  /\ InitRequestWith(HeaderValues, {<<>>, <<"b">>}, Methods,
                     {"absent", "chunked", "gzip"}, Builders)

(* ------------------------------------------------------------------------ *)
(* AWSAuthConnection._mexe                                                  *)
(* ------------------------------------------------------------------------ *)

\* the budget of _mexe: override is <<>> for None, else <<n>>;
\* config.getint('TxBoto', 'num_retries', self.num_retries) is the
\* connection's num_retries when nothing is configured
NumRetries(override) ==
  IF override = <<>> THEN ConnNumRetries ELSE override[1]

\* _mexe(request, override_num_retries, retry_handler) is entered: the
\* locals are initialised and the budget is fixed
Mexe(override) ==
  /\ pc = "idle"
  /\ override \in Budgets(retry_handler)
  /\ pc' = "loop"
  /\ num_retries' = NumRetries(<<override>>)
  /\ entry' = "_mexe"
  /\ UNCHANGED retry_handler
  /\ i' = 0
  /\ response' = NoResponse
  /\ body' = 0
  /\ ex' = "None"
  /\ returnValue' = NoReturn
  /\ UNCHANGED <<next_sleep, error, fixed, thruput_responses, req,
                 throughput_exceeded_events, provider, sends, sleeps,
                 last_sleep, hook_calls, hist, run, ending>>

\* AWSQueryConnection.make_request(action, params, path, verb): Action and
\* Version are added to the request's params, and _mexe(http_request) is
\* entered with the default of override_num_retries
QueryMakeRequest ==
  /\ pc = "idle"
  /\ retry_handler = "none"
  /\ \E added \in SUBSET {"Action", "Version"} :
       params' = params \cup added
  /\ pc' = "loop"
  /\ num_retries' = NumRetries(<<DefaultOverrideNumRetries>>)
  /\ entry' = "AWSQueryConnection.make_request"
  /\ UNCHANGED retry_handler
  /\ i' = 0
  /\ response' = NoResponse
  /\ body' = 0
  /\ ex' = "None"
  /\ returnValue' = NoReturn
  /\ UNCHANGED <<next_sleep, error, fixed, thruput_responses,
                 throughput_exceeded_events, provider, sends, sleeps,
                 last_sleep, hook_calls, hist, run, ending, headers,
                 headers_quoted, request_body, authorizes, given_headers,
                 first_headers, method, built_by, caller_headers,
                 caller_params>>

\* Layer1.make_request calls self._mexe(http_request, sender=None, ...);
\* _mexe has no parameter sender, so the call raises TypeError before the
\* loop is entered
Layer1MakeRequest ==
  /\ pc = "idle"
  /\ retry_handler = "layer1"
  /\ pc' = "raised"
  /\ UNCHANGED retry_handler
  /\ num_retries' = NumberRetries
  /\ error' = PlainError("TypeError")
  /\ ending' = "entry"
  /\ entry' = "Layer1.make_request"
  /\ UNCHANGED <<i, next_sleep, response, body, ex, returnValue, fixed,
                 thruput_responses, req,
                 throughput_exceeded_events, provider, sends, sleeps,
                 last_sleep, hook_calls, hist, run>>

\* a loop that stops one attempt early
LoopConditionStrict(idx, n) == idx < n

\* a loop that allows one attempt too many
LoopConditionOneMore(idx, n) == idx <= n + 1

\* the condition of the while loop
LoopCondition(idx, n) == idx <= n

\* an increment that skips an attempt index
NextIndexSkips(idx) == idx + 2

\* an increment that leaves the attempt index where it is
NextIndexStays(idx) == idx

\* i += 1 at the end of an iteration
NextIndex(idx) == idx + 1

\* top of the while loop with i <= num_retries: next_sleep is drawn,
\* the request is authorized and sent
Send ==
  /\ pc = "loop"
  /\ LoopCondition(i, num_retries)
  /\ \E rnd \in RandomSamples :
       LET d == StandardSleep(rnd, i, max_retry_delay, python)
       IN IF d.ok
            THEN /\ next_sleep' = d.val
                 /\ pc' = "await"
                 /\ sends' = sends + 1
                 /\ last_sleep' = -1
                 /\ attempt' = i
                 /\ headers' = AuthorizeHeaders(headers, headers_quoted,
                                                authorizes + 1, request_body)
                 /\ headers_quoted' = TRUE
                 /\ authorizes' = authorizes + 1
                 /\ first_headers' =
                      IF authorizes = 0 THEN headers' ELSE first_headers
                 /\ caller_headers' =
                      IF BuildAliases(built_by, method, given_headers)
                        THEN headers' ELSE caller_headers
                 /\ UNCHANGED <<error, ending>>
            ELSE \* min() raises before the try block is entered
                 /\ pc' = "raised"
                 /\ error' = PlainError("TypeError")
                 /\ ending' = "uncaught"
                 /\ UNCHANGED <<next_sleep, sends, last_sleep, attempt,
                                headers, headers_quoted, authorizes,
                                first_headers, caller_headers>>
  /\ UNCHANGED <<request_body, given_headers, method, built_by, params,
                 caller_params>>
  /\ UNCHANGED <<num_retries, retry_handler, i, response, body, ex,
                 returnValue, conn, throughput_exceeded_events,
                 provider, sleeps, hook_calls, received, last_exc,
                 last_decision, run>>

\* an except clause that takes every exception for a transient one
ExceptClauseCatchAll(e) == "retry"

\* which except clause of _mexe an exception raised by the send reaches:
\* only an http_exceptions instance is caught, and re-raised when it is also
\* unretryable; anything else leaves the loop uncaught
ExceptClause(e) ==
  IF e \in http_exceptions
    THEN IF e \in http_unretryable_exceptions THEN "reraise" ELSE "retry"
    ELSE "uncaught"

\* the send raises e
SendFails(e) ==
  /\ pc = "await"
  /\ e \in SendExceptions
  /\ IF ExceptClause(e) = "retry"
       THEN /\ ex' = e
            /\ sleeps' = sleeps + 1
            /\ last_sleep' = next_sleep
            /\ i' = NextIndex(i)
            /\ pc' = "loop"
            /\ UNCHANGED <<error, ending>>
       ELSE /\ pc' = "raised"
            /\ error' = PlainError(e)
            /\ ending' = "uncaught"
            /\ UNCHANGED <<ex, sleeps, last_sleep, i>>
  /\ run' = Extend(run, "other")
  /\ last_exc' = e
  /\ next_sleep' = 0
  /\ UNCHANGED <<num_retries, retry_handler, response, body,
                 returnValue, conn, req, throughput_exceeded_events, provider,
                 sends, hook_calls, attempt, received, last_decision>>

\* yield defer.maybeDeferred(self.request_hook.handle_request_data, ...):
\* nothing catches what the hook raises at the place of the call
HookOutcome(hook, raises) ==
  IF hook /\ raises # "None" THEN "raises" ELSE "completes"

\* a default handling that passes every 3xx on, with or without Location
DefaultPolicyRedirectAll(r) ==
  IF r.code \in RetryCodes THEN "retry"
  ELSE IF r.code < 300 \/ r.code >= 400 THEN "return"
  ELSE "fallthrough"

\* the default handling of a response the classifier did not take over
DefaultPolicy(r) ==
  IF r.code \in RetryCodes THEN "retry"
  ELSE IF r.code < 300 \/ r.code >= 400 \/ ~r.location THEN "return"
  ELSE "fallthrough"

\* an unpacking that lets the increment at the end of the loop body run too
InstructedIndexThenIncrement(status) == NextIndex(status.i)

\* msg, i, next_sleep = status: the attempt index the loop goes on with
\* (the continue skips the increment at the end of the loop body)
InstructedIndex(status) == status.i

\* the send delivers response r: classifier, then default handling
ReceiveResponse(r) ==
  /\ pc = "await"
  /\ r \in Responses
  /\ response' = r
  /\ received' = r
  /\ last_exc' = "None"
  /\ run' = Extend(run, OutcomeClass(r))
  /\ thruput_responses' =
       IF /\ retry_handler # "none"
          /\ r.code = 400
          /\ r.dtype = ThruputError
         THEN thruput_responses + 1 ELSE thruput_responses
  /\ LET st == IF retry_handler # "none"
                 THEN CallRetryHandler(retry_handler, r, i, validate_checksums)
                 ELSE Decision("none", "-", i, 0, NoError, 0, FALSE)
     IN  /\ last_decision' = IF retry_handler # "none" THEN st.kind ELSE "-"
         /\ throughput_exceeded_events' = throughput_exceeded_events + st.events
         /\ provider' = IF st.renew THEN provider + 1 ELSE provider
         /\ IF st.kind = "raise"
              THEN /\ pc' = "raised"
                   /\ error' = st.error
                   /\ ending' = "classifier"
                   /\ UNCHANGED <<i, body, ex, returnValue, sleeps,
                                  last_sleep, hook_calls>>
            ELSE IF st.kind = "status"
              THEN /\ i' = InstructedIndex(st)
                   /\ sleeps' = sleeps + 1
                   /\ last_sleep' = st.sleep
                   /\ pc' = "loop"
                   /\ UNCHANGED <<body, ex, returnValue, error, hook_calls,
                                  ending>>
            ELSE IF DefaultPolicy(r) = "retry"
              THEN /\ body' = r.body
                   /\ sleeps' = sleeps + 1
                   /\ last_sleep' = next_sleep
                   /\ i' = NextIndex(i)
                   /\ pc' = "loop"
                   /\ UNCHANGED <<ex, returnValue, error, hook_calls, ending>>
            ELSE IF DefaultPolicy(r) = "return"
              THEN /\ hook_calls' = IF request_hook THEN hook_calls + 1
                                    ELSE hook_calls
                   /\ body' = body
                   /\ IF HookOutcome(request_hook, hook_raises) = "completes"
                        THEN \* returnValue = (response, response_body); break
                             /\ returnValue' = [response |-> r, body |-> r.body]
                             /\ pc' = "returned"
                             /\ ending' = "returned"
                             /\ UNCHANGED <<i, ex, error, sleeps, last_sleep>>
                      ELSE IF ExceptClause(hook_raises) = "retry"
                        THEN \* the hook's exception reaches the clause
                             \* except self.http_exceptions
                             /\ ex' = hook_raises
                             /\ sleeps' = sleeps + 1
                             /\ last_sleep' = next_sleep
                             /\ i' = NextIndex(i)
                             /\ pc' = "loop"
                             /\ UNCHANGED <<returnValue, error, ending>>
                        ELSE \* the hook's exception leaves _mexe
                             /\ pc' = "raised"
                             /\ error' = PlainError(hook_raises)
                             /\ ending' = "hook"
                             /\ UNCHANGED <<i, ex, returnValue, sleeps,
                                            last_sleep>>
              ELSE /\ sleeps' = sleeps + 1
                   /\ last_sleep' = next_sleep
                   /\ i' = NextIndex(i)
                   /\ pc' = "loop"
                   /\ UNCHANGED <<body, ex, returnValue, error, hook_calls,
                                  ending>>
  /\ next_sleep' = 0
  /\ UNCHANGED <<num_retries, retry_handler, fixed, entry, req, sends,
                 attempt>>

\* an exhaustion error that forgets the captured exception
ExhaustedErrorDropsException(resp, b, e) ==
  IF resp # NoResponse
    THEN Err("BotoServerError", resp.code, code2status(resp.code), b)
  ELSE PlainError("BotoClientError")

\* an exhaustion error that prefers the captured exception to the response
ExhaustedErrorExFirst(resp, b, e) ==
  IF e # "None" THEN PlainError(e)
  ELSE IF resp # NoResponse
    THEN Err("BotoServerError", resp.code, code2status(resp.code), 0)
  ELSE PlainError("BotoClientError")

\* the error raised once the loop ended without a return value
ExhaustedError(resp, b, e) ==
  IF resp # NoResponse
    THEN Err("BotoServerError", resp.code, code2status(resp.code), b)
  ELSE IF e # "None" THEN PlainError(e)
  ELSE PlainError("BotoClientError")

\* the while condition fails: the hook is told, the error is raised
Exhausted ==
  /\ pc = "loop"
  /\ ~LoopCondition(i, num_retries)
  /\ hook_calls' = IF request_hook THEN hook_calls + 1 ELSE hook_calls
  /\ error' = IF HookOutcome(request_hook, hook_raises) = "completes"
                THEN ExhaustedError(response, body, ex)
                ELSE PlainError(hook_raises)
  /\ pc' = "raised"
  /\ ending' = "exhausted"
  /\ UNCHANGED <<num_retries, retry_handler, i, next_sleep, response, body,
                 ex, returnValue, conn, req, throughput_exceeded_events,
                 provider,
                 sends, sleeps, last_sleep, hist, run>>

Next ==
  \/ \E n \in 0..NumberRetries : Mexe(n)
  \/ QueryMakeRequest
  \/ Layer1MakeRequest
  \/ Send
  \/ \E e \in SendExceptions : SendFails(e)
  \/ \E r \in Responses : ReceiveResponse(r)
  \/ Exhausted

Spec == Init /\ [][Next]_vars

SpecAdapter == InitAdapter /\ [][Next]_vars

SpecHook == InitHook /\ [][Next]_vars

\* responses the classifier answers with each of its retry instructions,
\* and some it leaves to the default handling
InstructionResponses ==
  {r \in Responses :
     /\ r.body = 1
     /\ \/ r.code \in {200, 503}
        \/ r.code = 400 /\ r.crc = "absent"
             /\ r.dtype \in {ThruputError, SessionExpiredError,
                             ValidationError}}

\* _mexe with the forwarding classifier, every send delivering a response
NextInstruction ==
  \/ \E n \in 0..NumberRetries : Mexe(n)
  \/ Send
  \/ \E r \in InstructionResponses : ReceiveResponse(r)
  \/ Exhausted

SpecInstruction == InitAdapter /\ [][NextInstruction]_vars

\* _mexe called with Layer1's classifier, as the bound method and through
\* the forwarding callable
InitLive == InitWith({"layer1", "adapter"}, {"None"})

\* the steps of such an invocation: every send ends, in a response or in
\* an exception
NextLive ==
  \/ \E n \in 0..NumberRetries : Mexe(n)
  \/ Send
  \/ \E e \in SendExceptions : SendFails(e)
  \/ \E r \in InstructionResponses : ReceiveResponse(r)
  \/ Exhausted

\* the coroutine runs whenever it can: a call that was made is entered, a
\* send that was started ends, and the hook's call completes within its step
SpecLive == InitLive /\ [][NextLive]_vars /\ WF_vars(NextLive)

\* the clause except PleaseRetryException: its first statement evaluates
\* '...'.foramt(e), and a str has no attribute foramt, so the clause raises
\* AttributeError before it records the response or the exception
PleaseRetryClause == "AttributeError"

\* the attempt raises PleaseRetryException: the exception raised inside the
\* except clause is caught by no other clause of the same try and leaves
\* _mexe
AttemptRaisesPleaseRetry ==
  /\ pc = "await"
  /\ last_exc' = "PleaseRetryException"
  /\ run' = Extend(run, "other")
  /\ pc' = "raised"
  /\ error' = PlainError(PleaseRetryClause)
  /\ ending' = "uncaught"
  /\ next_sleep' = 0
  /\ UNCHANGED <<num_retries, retry_handler, i, response, body, ex,
                 returnValue, conn, req, throughput_exceeded_events, provider,
                 sends, sleeps, last_sleep, hook_calls, attempt, received,
                 last_decision>>

NextPleaseRetry ==
  \/ Next
  \/ AttemptRaisesPleaseRetry

\* the program as it is wired, with attempts that raise PleaseRetryException
SpecPleaseRetry == Init /\ [][NextPleaseRetry]_vars

\* request.authorize(connection), called on the request directly
Authorize ==
  /\ pc = "idle"
  /\ authorizes < MaxAuthorize
  /\ headers' = AuthorizeHeaders(headers, headers_quoted, authorizes + 1,
                                 request_body)
  /\ headers_quoted' = TRUE
  /\ authorizes' = authorizes + 1
  /\ first_headers' = IF authorizes = 0 THEN headers' ELSE first_headers
  /\ caller_headers' = IF BuildAliases(built_by, method, given_headers)
                         THEN headers' ELSE caller_headers
  /\ UNCHANGED <<pc, num_retries, retry_handler, i, next_sleep, response,
                 body, ex, returnValue, error, conn,
                 throughput_exceeded_events, provider, sends, sleeps,
                 last_sleep, hook_calls, hist, run, ending, request_body,
                 given_headers, method, built_by, params, caller_params>>

NextRequest == Authorize

SpecRequest == InitRequest /\ [][NextRequest]_vars

(* ------------------------------------------------------------------------ *)
(* The two backoff curves                                                   *)
(* ------------------------------------------------------------------------ *)

\* an attempt index, a configuration and a Python, before any computation
InitBackoff ==
  /\ InitMexe({"none"}, {"None"})
  /\ InitEnv(MaxRetryDelayOptions, Pythons, 0..MaxIndex)
  /\ ~request_hook
  /\ InitRequestWith({<<"a", " ">>}, {<<"b">>}, {"POST"}, {"absent"},
                     {"build_base_http_request"})
  /\ "Content-Length" \in DOMAIN headers
  /\ params = {}

\* lines 363-365 of _mexe for the attempt index at_index
StandardBackoff ==
  /\ curve = "-"
  /\ \E rnd \in RandomSamples :
       delay' = StandardSleep(rnd, at_index, max_retry_delay, python)
  /\ curve' = "standard"
  /\ UNCHANGED <<mexe, config, req, at_index, tasks, endpoints,
                 library>>

\* Layer1._exponential_time(at_index)
ThroughputBackoff ==
  /\ curve = "-"
  /\ delay' = ExponentialTimeWith(at_index, max_retry_delay, python)
  /\ curve' = "throughput"
  /\ UNCHANGED <<mexe, config, req, at_index, tasks, endpoints,
                 library>>

NextBackoff == StandardBackoff \/ ThroughputBackoff

SpecBackoff == InitBackoff /\ [][NextBackoff]_vars

\* _mexe and the request at rest, while another part of the program runs
InitIdle ==
  /\ InitMexe({"none"}, {"None"})
  /\ ~request_hook
  /\ InitRequestWith({<<"a", " ">>}, {<<"b">>}, {"POST"}, {"absent"},
                     {"build_base_http_request"})
  /\ "Content-Length" \in DOMAIN headers
  /\ params = {}
  /\ max_retry_delay = <<>>
  /\ python = "py3"
  /\ at_index = 0
  /\ curve = "-"
  /\ delay = [ok |-> TRUE, val |-> 0]

(* ------------------------------------------------------------------------ *)
(* Concurrent loops on the reactor thread                                   *)
(* ------------------------------------------------------------------------ *)
(* _mexe is an inlineCallbacks coroutine: it runs on the reactor thread,    *)
(* gives the thread back at each yield (the send), and keeps it through     *)
(* every call that does not yield, time.sleep among them.                   *)

Tasks == 1..NumTasks

\* each loop is about to be called
InitReactor ==
  /\ InitIdle
  /\ InitLibrary
  /\ task_pc = [t \in Tasks |-> "idle"]
  /\ task_i = [t \in Tasks |-> 0]
  /\ reactor = 0
  /\ defaults = <<>>
  /\ additions = <<>>
  /\ given_defaults = <<>>
  /\ merged = TRUE

\* where a loop is when it next gives the thread back, its attempt index
\* being n: at the yield of the send if the loop condition holds, else done
AtNextYield(n) == IF LoopCondition(n, TaskBudget) THEN "await" ELSE "done"

\* _mexe is called: it runs to the yield of its first send
TaskStart(t) ==
  /\ reactor = 0
  /\ task_pc[t] = "idle"
  /\ task_pc' = [task_pc EXCEPT ![t] = AtNextYield(task_i[t])]
  /\ UNCHANGED <<task_i, reactor, mexe, config, req, backoff, endpoints,
                 library>>

\* the send ends in a response that ends the loop: the coroutine is resumed
\* and returns
TaskReturns(t) ==
  /\ reactor = 0
  /\ task_pc[t] = "await"
  /\ task_pc' = [task_pc EXCEPT ![t] = "done"]
  /\ UNCHANGED <<task_i, reactor, mexe, config, req, backoff, endpoints,
                 library>>

\* the send ends in a failure to retry: the coroutine is resumed and calls
\* time.sleep(next_sleep), which returns only when the delay is over
TaskSleeps(t) ==
  /\ reactor = 0
  /\ task_pc[t] = "await"
  /\ task_pc' = [task_pc EXCEPT ![t] = "sleep"]
  /\ reactor' = t
  /\ UNCHANGED <<task_i, mexe, config, req, backoff, endpoints,
                 library>>

\* time.sleep returns: i += 1, and the loop runs on to its next yield
TaskWakes(t) ==
  /\ reactor = t
  /\ task_pc[t] = "sleep"
  /\ task_i' = [task_i EXCEPT ![t] = NextIndex(task_i[t])]
  /\ task_pc' = [task_pc EXCEPT ![t] = AtNextYield(task_i'[t])]
  /\ reactor' = 0
  /\ UNCHANGED <<mexe, config, req, backoff, endpoints,
                 library>>

NextReactor ==
  \E t \in Tasks :
    TaskStart(t) \/ TaskReturns(t) \/ TaskSleeps(t) \/ TaskWakes(t)

SpecReactor == InitReactor /\ [][NextReactor]_vars

(* ------------------------------------------------------------------------ *)
(* merge_endpoints                                                          *)
(* ------------------------------------------------------------------------ *)

\* two endpoints documents, before the merge
InitEndpoints ==
  /\ InitIdle
  /\ InitLibrary
  /\ task_pc = [t \in Tasks |-> "done"]
  /\ task_i = [t \in Tasks |-> 0]
  /\ reactor = 0
  /\ defaults \in EndpointMaps("default")
  /\ additions \in EndpointMaps("overlay")
  /\ given_defaults = defaults
  /\ merged = FALSE

\* merge_endpoints(defaults, additions) updates defaults and returns it
Merge ==
  /\ ~merged
  /\ defaults' = MergeEndpoints(defaults, additions, DOMAIN additions)
  /\ merged' = TRUE
  /\ UNCHANGED <<additions, given_defaults, mexe, config, req, backoff,
                 tasks, library>>

NextEndpoints == Merge

SpecEndpoints == InitEndpoints /\ [][NextEndpoints]_vars

(* ------------------------------------------------------------------------ *)
(* get_plugin                                                               *)
(* ------------------------------------------------------------------------ *)

\* the connection part at rest, endpoints and loops unused
InitRest ==
  /\ InitIdle
  /\ task_pc = [t \in Tasks |-> "done"]
  /\ task_i = [t \in Tasks |-> 0]
  /\ reactor = 0
  /\ defaults = <<>>
  /\ additions = <<>>
  /\ given_defaults = <<>>
  /\ merged = TRUE

\* a plugin class without subclasses yet
InitPlugin ==
  /\ InitRest
  /\ IdleProcess
  /\ IdleBatchWriteList
  /\ IdleResultSet
  /\ IdleBatchGet
  /\ NewBatchList
  /\ subclasses = <<>>
  /\ requested = [none |-> TRUE, list |-> <<>>]
  /\ plugin_result = <<>>
  /\ plugin_called = FALSE

\* a class statement defines one more direct subclass of cls
DefineSubclass(capability) ==
  /\ ~plugin_called
  /\ Len(subclasses) < MaxPlugins
  /\ subclasses' = Append(subclasses, capability)
  /\ UNCHANGED <<requested, plugin_result, plugin_called, beside_plugins>>

\* get_plugin(cls, request)
CallGetPlugin(request) ==
  /\ ~plugin_called
  /\ requested' = request
  /\ plugin_result' = GetPlugin(subclasses, request)
  /\ plugin_called' = TRUE
  /\ UNCHANGED <<subclasses, beside_plugins>>

NextPlugin ==
  \/ \E capability \in CapabilityLists : DefineSubclass(capability)
  \/ \E request \in Requests : CallGetPlugin(request)

SpecPlugin == InitPlugin /\ [][NextPlugin]_vars

(* ------------------------------------------------------------------------ *)
(* ResultSet                                                                *)
(* ------------------------------------------------------------------------ *)

\* a new result set of either page size
InitResultSet ==
  /\ InitRest
  /\ IdleProcess
  /\ IdleBatchWriteList
  /\ IdlePlugins
  /\ IdleBatchGet
  /\ NewBatchList
  /\ NewResultSet(PageSizes)

\* to_call(the_callable, limit=l)
ToCall(l) ==
  /\ rs_pc = "new"
  /\ limit' = ToCallLimit(l)
  /\ given_limit' = l
  /\ rs_pc' = "ready"
  /\ UNCHANGED <<results, offset, results_left, last_key_seen, fetches,
                 max_page_size, sent_kwargs, pages, yielded, stopped>>
  /\ UNCHANGED <<batchget, beside_results>>

\* __next__(): StopIteration when nothing is left, the deferred of
\* fetch_more when the page is used up (fetch_more runs to its yield: reset,
\* keyword arguments, the call), else the next item or the stop at the limit
ResultSetNext ==
  /\ rs_pc = "ready"
  /\ IF offset >= results
       THEN IF ~results_left
              THEN /\ stopped' = TRUE
                   /\ UNCHANGED <<rs_pc, results, offset, max_page_size,
                                  limit, sent_kwargs, yielded>>
              ELSE /\ fetches < MaxFetches
                   /\ results' = 0
                   /\ offset' = 0
                   /\ max_page_size' = CappedPageSize(max_page_size, limit)
                   /\ sent_kwargs' =
                        Append(sent_kwargs,
                               FetchKwargs(last_key_seen, max_page_size,
                                           limit))
                   /\ rs_pc' = "fetching"
                   /\ stopped' = FALSE
                   /\ UNCHANGED <<limit, yielded>>
       ELSE IF limit # <<>>
              THEN /\ limit[1] > -MaxOverrun
                   /\ limit' = <<limit[1] - 1>>
                   /\ IF LimitExceeded(limit'[1])
                        THEN /\ stopped' = TRUE
                             /\ UNCHANGED <<offset, yielded>>
                        ELSE /\ offset' = offset + 1
                             /\ yielded' = yielded + 1
                             /\ stopped' = FALSE
                   /\ UNCHANGED <<rs_pc, results, max_page_size, sent_kwargs>>
              ELSE /\ offset' = offset + 1
                   /\ yielded' = yielded + 1
                   /\ stopped' = FALSE
                   /\ UNCHANGED <<rs_pc, results, max_page_size, limit,
                                  sent_kwargs>>
  /\ UNCHANGED <<results_left, last_key_seen, fetches, given_limit, pages>>
  /\ UNCHANGED <<batchget, beside_results>>

\* the callable's deferred fires with a page of n results, with a last_key
\* (a key no page had before) or without: the rest of fetch_more
PageArrives(n, more) ==
  /\ rs_pc = "fetching"
  /\ fetches' = fetches + 1
  /\ last_key_seen' = IF more THEN fetches' ELSE 0
  /\ results' = results + n
  /\ results_left' = ResultsLeftAfter(results_left, limit, n, last_key_seen')
  /\ pages' = Append(pages, last_key_seen')
  /\ rs_pc' = "ready"
  /\ UNCHANGED <<offset, max_page_size, limit, given_limit, sent_kwargs,
                 yielded, stopped>>
  /\ UNCHANGED <<batchget, beside_results>>

NextResultSet ==
  \/ \E l \in Limits : ToCall(l)
  \/ ResultSetNext
  \/ \E n \in 0..MaxPage : \E more \in BOOLEAN : PageArrives(n, more)

SpecResultSet == InitResultSet /\ [][NextResultSet]_vars

(* ------------------------------------------------------------------------ *)
(* BatchGetResultSet                                                        *)
(* ------------------------------------------------------------------------ *)

\* a new result set with its keys
InitBatchGet ==
  /\ InitRest
  /\ IdleProcess
  /\ IdleBatchWriteList
  /\ IdlePlugins
  /\ NewBatchList
  /\ NewResultSet({<<>>})
  /\ NewBatchGet(KeyLists)

\* __next__() of a BatchGetResultSet made ready by to_call: the inherited
\* method, fetch_more being the override, run to its yield
BatchGetNext ==
  /\ rs_pc = "ready"
  /\ IF offset >= results
       THEN IF ~results_left
              THEN /\ stopped' = TRUE
                   /\ UNCHANGED <<rs_pc, results, offset, results_left,
                                  keys_left, keys_sent, yielded>>
              ELSE /\ results' = 0
                   /\ offset' = 0
                   /\ keys_sent' = Take(keys_left, MaxBatchGet)
                   /\ keys_left' = Drop(keys_left, MaxBatchGet)
                   /\ results_left' =
                        IF Len(keys_left') <= 0 THEN FALSE ELSE results_left
                   /\ rs_pc' = "fetching"
                   /\ stopped' = FALSE
                   /\ UNCHANGED yielded
       ELSE /\ offset' = offset + 1
            /\ yielded' = yielded + 1
            /\ stopped' = FALSE
            /\ UNCHANGED <<rs_pc, results, results_left, keys_left, keys_sent>>
  /\ UNCHANGED <<last_key_seen, fetches, max_page_size, limit, given_limit,
                 sent_kwargs, pages, unprocessed_keys, processed, given_keys>>
  /\ UNCHANGED beside_results

\* the callable's deferred fires with a page for the keys sent: the rest of
\* BatchGetResultSet.fetch_more
BatchGetPageArrives(page) ==
  /\ rs_pc = "fetching"
  /\ LET n == Len(Picked(keys_sent, page, "item"))
         again == Picked(keys_sent, page, "unprocessed")
     IN /\ results' = results + n
        /\ keys_left' = KeysLeftAfter(keys_left, n, again)
        /\ results_left' =
             IF n # 0 /\ Len(keys_left') > 0 THEN TRUE ELSE results_left
        /\ unprocessed_keys' = again
        /\ processed' =
             processed \cup {keys_sent[k] : k \in
                               {j \in 1..Len(keys_sent) :
                                  page[keys_sent[j]] # "unprocessed"}}
  /\ keys_sent' = <<>>
  /\ rs_pc' = "ready"
  /\ UNCHANGED <<given_keys, offset, last_key_seen, fetches, max_page_size, limit,
                 given_limit, sent_kwargs, pages, yielded, stopped>>
  /\ UNCHANGED beside_results

NextBatchGet ==
  \/ ToCall(<<>>)
  \/ BatchGetNext
  \/ \E page \in [1..MaxKeys -> KeyOutcomes] : BatchGetPageArrives(page)

SpecBatchGet == InitBatchGet /\ [][NextBatchGet]_vars

(* ------------------------------------------------------------------------ *)
(* BatchList                                                                *)
(* ------------------------------------------------------------------------ *)

\* an empty batch list
InitBatchList ==
  /\ InitRest
  /\ IdleProcess
  /\ IdleBatchWriteList
  /\ IdlePlugins
  /\ IdleResultSet
  /\ IdleBatchGet
  /\ NewBatchList

\* add_batch(table, keys)
AddBatch(b) ==
  /\ Len(batch_list) < MaxBatches
  /\ batch_list' = Append(batch_list, b)
  /\ last_call' = "add_batch"
  /\ UNCHANGED <<unprocessed, requests, last_request, reported,
                 resubmit_result, beside_batches>>

\* submit() on the list as it is: Layer1.batch_get_item answers empty
\* request items with {} and sends nothing; a response with UnprocessedKeys
\* replaces self.unprocessed
SubmitList(list, u, answer) ==
  LET d == BatchListToDict(list, <<>>)
  IN IF d = <<>>
       THEN /\ unprocessed' = u
            /\ UNCHANGED <<requests, last_request, reported>>
       ELSE /\ requests < MaxSubmits
            /\ UnprocessedOf(answer, d)
            /\ requests' = requests + 1
            /\ last_request' = d
            /\ unprocessed' = [none |-> FALSE, map |-> answer]
            /\ reported' = [none |-> FALSE, map |-> answer]

\* submit()
Submit(answer) ==
  /\ SubmitList(batch_list, unprocessed, answer)
  /\ last_call' = "submit"
  /\ UNCHANGED <<batch_list, resubmit_result, beside_batches>>

\* resubmit(): del self[:], None when nothing is unprocessed, else the list
\* is rebuilt and submitted
Resubmit(answer) ==
  /\ last_call' = "resubmit"
  /\ IF NoUnprocessed(unprocessed)
       THEN /\ batch_list' = <<>>
            /\ resubmit_result' = "None"
            /\ UNCHANGED <<unprocessed, requests, last_request, reported>>
       ELSE /\ batch_list' \in RebuiltLists(unprocessed.map)
            /\ SubmitList(batch_list', unprocessed, answer)
            /\ resubmit_result' = "result"
  /\ UNCHANGED beside_batches

\* the answers of the server, <<>> being the one without unprocessed keys
Answers == UNION {[S -> SUBSET BatchKeys] : S \in SUBSET TableNames}

NextBatchList ==
  \/ \E b \in Batches : AddBatch(b)
  \/ \E answer \in Answers : Submit(answer)
  \/ \E answer \in Answers : Resubmit(answer)

SpecBatchList == InitBatchList /\ [][NextBatchList]_vars

(* ------------------------------------------------------------------------ *)
(* BatchWriteList                                                           *)
(* ------------------------------------------------------------------------ *)

\* an empty batch list of writes
InitBatchWrite ==
  /\ InitRest
  /\ IdleProcess
  /\ IdlePlugins
  /\ IdleResultSet
  /\ IdleBatchGet
  /\ NewBatchList
  /\ NewBatchWriteList(FALSE)

\* add_batch(table, puts, deletes)
AddWriteBatch(b) ==
  /\ ~write_converted
  /\ Len(write_list) < MaxBatches
  /\ write_list' = Append(write_list, b)
  /\ UNCHANGED <<write_request, write_converted, beside_writes>>

\* to_dict(), as layer2.batch_write_item calls it on submit
WriteToDict ==
  /\ ~write_converted
  /\ write_request' = BatchWriteListToDict(write_list, <<>>)
  /\ write_converted' = TRUE
  /\ UNCHANGED <<write_list, beside_writes>>

NextBatchWrite ==
  \/ \E b \in WriteBatches : AddWriteBatch(b)
  \/ WriteToDict

SpecBatchWrite == InitBatchWrite /\ [][NextBatchWrite]_vars

(* ------------------------------------------------------------------------ *)
(* load_regions                                                             *)
(* ------------------------------------------------------------------------ *)

\* a process with any environment, configuration and bundled document
InitRegions ==
  /\ InitRest
  /\ IdlePlugins
  /\ IdleResultSet
  /\ IdleBatchGet
  /\ NewBatchList
  /\ IdleBatchWriteList
  /\ NewProcess([TXBOTO_ENDPOINTS : EnvValues, BOTO_ENDPOINTS : EnvValues],
                OptionValues, EndpointMaps("default"), FALSE)

\* load_regions()
LoadRegions ==
  /\ ~regions_loaded
  /\ load_result' = LoadRegionsFrom(environ, endpoints_path, bundled)
  /\ regions_loaded' = TRUE
  /\ UNCHANGED <<environ, endpoints_path, bundled, beside_regions>>

NextRegions == LoadRegions

SpecRegions == InitRegions /\ [][NextRegions]_vars

TypeOK ==
  /\ pc \in {"idle", "loop", "await", "returned", "raised"}
  /\ retry_handler \in Handlers
  /\ i \in Nat
  /\ response \in Responses \cup {NoResponse}
  /\ body \in 0..MaxBody
  /\ request_hook \in BOOLEAN
  /\ hook_raises \in HookExceptions \cup {"None"}
  /\ url \in {"original", "redirect"}
  /\ ending \in {"-", "entry", "returned", "exhausted", "classifier",
                 "uncaught", "hook"}
  /\ headers_quoted \in BOOLEAN
  /\ authorizes \in Nat
  /\ \A k \in DOMAIN headers : headers[k] \in Seq(STRING)
  /\ method \in Methods
  /\ built_by \in Builders
  /\ python \in Pythons
  /\ max_retry_delay \in MaxRetryDelayOptions
  /\ entry \in {"-", "_mexe", "AWSQueryConnection.make_request",
                "Layer1.make_request"}
  /\ thruput_responses \in Nat
  /\ reactor \in {0} \cup Tasks
  /\ \A t \in Tasks : task_pc[t] \in {"idle", "await", "sleep", "done"}
  /\ merged \in BOOLEAN
  /\ plugin_called \in BOOLEAN
  /\ \A k \in 1..Len(subclasses) : subclasses[k] \in CapabilityLists
  /\ rs_pc \in {"new", "ready", "fetching"}
  /\ results \in Nat
  /\ offset \in 0..results
  /\ results_left \in BOOLEAN
  /\ fetches \in 0..MaxFetches
  /\ yielded \in Nat
  /\ stopped \in BOOLEAN
  /\ requests \in 0..MaxSubmits
  /\ Len(batch_list) <= MaxBatches
  /\ Len(write_list) <= MaxBatches
  /\ write_converted \in BOOLEAN
  /\ regions_loaded \in BOOLEAN

(* ------------------------------------------------------------------------ *)
(* Properties                                                               *)
(* ------------------------------------------------------------------------ *)

\* the most recent send delivered the response `received`, and the loop has
\* dealt with it
Handled ==
  /\ pc \in {"loop", "returned", "raised"}
  /\ last_exc = "None"
  /\ received # NoResponse

\* C1: one _mexe invocation performs at most N+1 sends, for every budget N,
\* without a classifier and with Layer1._retry_handler
C1_AtMostNPlusOneAttempts == sends <= num_retries + 1

\* the budget was spent to the last attempt
C1_Witness ==
  /\ pc = "raised"
  /\ num_retries >= 2
  /\ sends = num_retries + 1

\* C2: without a classifier, when the first k attempts each got a
\* 500/502/503/504 response and attempt k+1 got a 2xx, _mexe has returned that
\* 2xx response with its body after exactly k+1 sends and raised nothing
C2_TransientThenSuccess ==
  (retry_handler = "none" /\ run = "recovered") =>
    /\ pc = "returned"
    /\ error = NoError
    /\ received.code \in 200..299
    /\ returnValue = [response |-> received, body |-> received.body]
    /\ sends = i + 1
    /\ i <= num_retries

\* two 5xx responses, then a 2xx
C2_Witness ==
  /\ retry_handler = "none"
  /\ run = "recovered"
  /\ pc = "returned"
  /\ sends = 3

\* C3: without a classifier, when every one of the N+1 attempts got a 503,
\* _mexe does not return and raises BotoServerError with the status, reason
\* and body of the last 503 received
C3_Persistent503Raises ==
  (retry_handler = "none" /\ run = "503") =>
    /\ pc # "returned"
    /\ pc = "raised" =>
         /\ sends = num_retries + 1
         /\ received.code = 503
         /\ error = Err("BotoServerError", received.code,
                        code2status(received.code), received.body)

\* three 503 responses with a budget of two
C3_Witness ==
  /\ retry_handler = "none"
  /\ run = "503"
  /\ pc = "raised"
  /\ sends = 3
  /\ error.kind = "BotoServerError"

\* C4: an SSL.Error, CertificateError or VerifyError raised by a send ends
\* the invocation with that exception: no sleep follows it and no send
C4_UnretryableAborts ==
  last_exc \in http_unretryable_exceptions =>
    /\ pc = "raised"
    /\ error = PlainError(last_exc)
    /\ last_sleep = -1
    /\ i = attempt

\* the second attempt fails with a certificate error while budget remains
C4_Witness ==
  /\ last_exc = "CertificateError"
  /\ pc = "raised"
  /\ sends = 2
  /\ i < num_retries

\* the error class Layer1._retry_handler names for a 400 discriminator that
\* is neither throughput-exceeded nor expired-token
TypedError(dtype) ==
  IF dtype = ConditionalCheckFailedError
    THEN "DynamoDBConditionalCheckFailedError"
  ELSE IF dtype = ValidationError THEN "DynamoDBValidationError"
  ELSE "DynamoDBResponseError"

\* C5: with Layer1's classifier, a 400 response whose discriminator is
\* conditional-check-failed, validation or unrecognized ends the invocation
\* on that attempt with DynamoDBConditionalCheckFailedError,
\* DynamoDBValidationError or DynamoDBResponseError
C5_FatalDiscriminatorsRaiseTyped ==
  (/\ retry_handler # "none"
   /\ Handled
   /\ received.code = 400
   /\ received.dtype \in
        {ConditionalCheckFailedError, ValidationError, UnknownError}) =>
    /\ pc = "raised"
    /\ error.kind = TypedError(received.dtype)
    /\ i = attempt
    /\ last_sleep = -1

\* C6: with Layer1's classifier and budget NumberRetries, a 400
\* throughput-exceeded response on the final allowed attempt (index N) makes
\* the engine raise DynamoDBThroughputExceededError
C6_ThroughputOnFinalAttemptRaises ==
  (/\ retry_handler # "none"
   /\ num_retries = NumberRetries
   /\ Handled
   /\ received.code = 400
   /\ received.dtype = ThruputError
   /\ attempt = num_retries) =>
    /\ pc = "raised"
    /\ error.kind = "DynamoDBThroughputExceededError"

\* C7: when every attempt gets a 400 throughput-exceeded response, the
\* engine raises only DynamoDBThroughputExceededError, and only after
\* NumberRetries + 1 sends
C7_PersistentThroughputRaisesAtExhaustion ==
  (retry_handler # "none" /\ run = "thruput" /\ pc = "raised") =>
    /\ error.kind = "DynamoDBThroughputExceededError"
    /\ sends = NumberRetries + 1

\* C8: with checksum validation on, a 200 response whose x-amz-crc32 does
\* not match its body is followed by one more attempt while budget remains:
\* the attempt index advances by exactly one
C8_ChecksumMismatchRetriesOnce ==
  (/\ retry_handler # "none"
   /\ validate_checksums
   /\ Handled
   /\ received.code = 200
   /\ received.crc = "mismatch"
   /\ attempt < num_retries) =>
    /\ pc = "loop"
    /\ i = attempt + 1
    /\ sends <= num_retries

\* C9: with checksum validation on, every response whose checksum header
\* does not match its body is answered with a retry decision, whatever its
\* status code and discriminator
C9_ChecksumMismatchAlwaysRetried ==
  (/\ retry_handler # "none"
   /\ validate_checksums
   /\ Handled
   /\ received.crc = "mismatch") =>
    last_decision = "status"

\* C10: on a 400 expired-token response the classifier renews the provider,
\* the next attempt follows with zero delay, and at least as many attempts
\* remain allowed after the renewal as before it
C10_RenewalExtendsBudget ==
  (/\ retry_handler # "none"
   /\ Handled
   /\ received.code = 400
   /\ received.dtype = SessionExpiredError
   /\ received.crc # "mismatch") =>
    /\ provider >= 1
    /\ last_sleep = 0
    /\ pc = "loop"
    /\ i <= attempt
    /\ LoopCondition(i, num_retries)

\* C11: when the loop ends without a return value, _mexe raises
\* BotoServerError if any attempt of the invocation received a response, even
\* when later attempts ended in exceptions; otherwise it re-raises the
\* retryable exception captured last
C11_ExhaustionPrefersResponse ==
  ending = "exhausted" =>
    IF received # NoResponse
      THEN error.kind = "BotoServerError"
      ELSE /\ last_exc \in http_exceptions
           /\ error = PlainError(last_exc)

\* a response was received, and the attempts after it ended in exceptions
C11_Witness ==
  /\ ending = "exhausted"
  /\ received # NoResponse
  /\ last_exc \in http_exceptions
  /\ error.kind = "BotoServerError"

\* C12: the BotoServerError raised at exhaustion carries the status, the
\* reason and the body of one response, the last one the loop received
C12_ErrorFieldsOfLastResponse ==
  (ending = "exhausted" /\ received # NoResponse) =>
    error = Err("BotoServerError", received.code, code2status(received.code),
                received.body)

\* C13: _mexe never raises the generic BotoClientError: whenever the loop
\* ends without a return value, a response or an exception has been recorded
C13_NeverGenericClientError ==
  /\ error.kind # "BotoClientError"
  /\ (pc = "loop" /\ ~LoopCondition(i, num_retries)) =>
       (response # NoResponse \/ ex # "None")

\* the smallest budget: the loop ended after its only attempt
C13_Witness ==
  /\ ending = "exhausted"
  /\ num_retries = 0
  /\ sends = 1
  /\ error.kind # "BotoClientError"

\* a 2xx or 4xx response, or a 3xx response without a Location header
EndsLoop(r) ==
  \/ r.code \in 200..299
  \/ r.code \in 400..499
  \/ r.code \in 300..399 /\ ~r.location

\* C14: without a classifier, a 2xx or 4xx response, or a 3xx response
\* without Location, ends the loop on its attempt: _mexe has returned that
\* response with its body, raised nothing, slept no more and sent no more
C14_TerminalResponseReturnsAtOnce ==
  (retry_handler = "none" /\ Handled /\ EndsLoop(received)) =>
    /\ pc = "returned"
    /\ returnValue = [response |-> received, body |-> received.body]
    /\ error = NoError
    /\ last_sleep = -1
    /\ i = attempt

\* a 3xx response without Location returned on a later attempt
C14_Witness ==
  /\ retry_handler = "none"
  /\ Handled
  /\ received.code = 302
  /\ ~received.location
  /\ sends >= 2
  /\ pc = "returned"

\* C15: a 3xx response with a Location header either makes the next attempt
\* target the redirect location or is returned as the result; it is never
\* retried against the same URL and never leads to a raised error
C15_RedirectFollowedOrReturned ==
  (/\ retry_handler = "none"
   /\ Handled
   /\ received.code \in 300..399
   /\ received.location) =>
    \/ pc = "returned" /\ returnValue.response = received
    \/ pc = "loop" /\ url = "redirect"

\* C16: every BotoServerError that _mexe raises carries one of the statuses
\* 500, 502, 503, 504
C16_ServerErrorOnlyForTransient5xx ==
  error.kind = "BotoServerError" => error.status \in RetryCodes

\* C17: with a request hook set, the hook has been invoked exactly once when
\* an invocation of _mexe has ended, however it ended: with a result, at
\* exhaustion, with a classifier-raised error or with an unretryable exception
C17_HookOncePerInvocation ==
  (request_hook /\ ending \in {"returned", "exhausted", "classifier",
                                "uncaught", "hook"}) =>
    hook_calls = 1

\* C18: an exception raised by the request hook changes nothing in the
\* outcome of _mexe: the response that ends the loop is still returned, and
\* the exhaustion error is still the one the loop recorded
C18_HookFailureKeepsOutcome ==
  (request_hook /\ hook_raises # "None") =>
    /\ (Handled /\ retry_handler = "none" /\ EndsLoop(received)) =>
         /\ pc = "returned"
         /\ returnValue = [response |-> received, body |-> received.body]
    /\ ending = "exhausted" => error = ExhaustedError(response, body, ex)

\* C19: every send of an invocation is preceded by an authorize call of its
\* own attempt: as many authorize calls as sends, and the request in flight
\* carries the signature of the latest call, not one of an earlier attempt
C19_AuthorizeBeforeEverySend ==
  /\ authorizes = sends
  /\ pc = "await" => headers["Authorization"] = Signature(sends)

\* a third attempt in flight
C19_Witness ==
  /\ pc = "await"
  /\ sends = 3
  /\ headers["Authorization"] = Signature(3)

\* C20: however often authorize is called on a request, each header value of
\* the caller is percent-encoded once: after every call it is the quoted
\* given value, the same after the second and later calls as after the first
C20_HeadersQuotedOnce ==
  authorizes >= 1 =>
    \A k \in CallerHeaders :
      /\ headers[k] = Quote(given_headers[k])
      /\ headers[k] = first_headers[k]

\* a value with a space and a percent sign, authorized twice or more
C20_Witness ==
  /\ authorizes >= 2
  /\ given_headers["X-Amz-Target"] = <<" ", "%">>
  /\ headers["X-Amz-Target"] = <<"%", "2", "0", "%">>

\* whether chunked transfer is active on a map of headers
ChunkedActive(h) ==
  "Transfer-Encoding" \in DOMAIN h /\ h["Transfer-Encoding"] = Chunked

C22_CallerMapsAndRequestFrame ==
  [][/\ built_by = "build_base_http_request" =>
          UNCHANGED <<caller_headers, caller_params>>
     /\ authorizes' # authorizes =>
          UNCHANGED <<method, url, params, request_body>>]_vars

\* a request authorized on three attempts, its headers changed, the caller's
\* map not
C22_Witness ==
  /\ built_by = "build_base_http_request"
  /\ authorizes = 3
  /\ headers # given_headers
  /\ caller_headers = given_headers

\* the cap in force: the configured max_retry_delay, 60 s by default
CapOf(cfg) == IF cfg = <<>> THEN MaxRetryDelay ELSE cfg[1]

\* the largest delay of a curve on attempt index n, before the cap
CurveMax(c, n) ==
  IF c = "standard" THEN 1000 * Pow2(n) ELSE ThruputBase * Pow2(n)

\* C23: for every attempt index the standard delay lies between 0 and
\* min(2^i, cap) and the throughput delay between 0 and min(0.05 * 2^i, cap),
\* where cap is the configured max_retry_delay, 60 s by default
C23_DelaysWithinCap ==
  curve # "-" =>
    /\ delay.ok
    /\ 0 <= delay.val
    /\ delay.val <= Min(CurveMax(curve, at_index), CapOf(max_retry_delay))

\* C24: on a throughput-exceeded response with attempt index i the loop
\* goes on to retry after a delay of min(0.05 * 2^i, 60 s), the tight curve
C24_ThroughputDelayFromTightCurve ==
  (/\ retry_handler # "none"
   /\ Handled
   /\ received.code = 400
   /\ received.dtype = ThruputError
   /\ received.crc # "mismatch"
   /\ attempt + 1 # NumberRetries) =>
    /\ pc = "loop"
    /\ last_sleep = Min(ThruputBase * Pow2(attempt), MaxRetryDelay)

\* C25: the loop sleeps only when another attempt follows: it has not slept
\* when it returns a response, and after a sleep the loop condition admits
\* the next attempt
C25_SleepOnlyBeforeRetry ==
  /\ pc = "returned" => last_sleep = -1
  /\ (pc = "loop" /\ last_sleep >= 0) => LoopCondition(i, num_retries)

\* C26: while one loop is in its backoff delay, another loop whose send is
\* in flight can still receive its response and complete
C26_BackoffBlocksOnlyItsLoop ==
  \A t, u \in Tasks :
    (task_pc[t] = "sleep" /\ task_pc[u] = "await") => ENABLED TaskReturns(u)

C28_DefaultBudgetIsSix ==
  entry = "AWSQueryConnection.make_request" => num_retries = ConnNumRetries

\* C29: when a Layer1 request has ended in an error and the last response
\* was a 400 with the expired-token discriminator, the error is a
\* DynamoDBExpiredTokenError
C29_ExpiredTokenRaisesTyped ==
  (/\ retry_handler # "none"
   /\ pc = "raised"
   /\ Handled
   /\ received.code = 400
   /\ received.dtype = SessionExpiredError) =>
    error.kind = "DynamoDBExpiredTokenError"

\* the endpoint of region r of service s in a document, "-" if it has none
Lookup(d, s, r) ==
  IF s \in DOMAIN d /\ r \in DOMAIN d[s] THEN d[s][r] ELSE "-"

\* C30: merge_endpoints yields, for every service and region, the overlay's
\* endpoint where the overlay has one and the endpoint of defaults where it
\* has none
C30_MergeIsPerServicePerRegion ==
  merged =>
    \A sv \in Services : \A r \in Regions :
      Lookup(defaults, sv, r) =
        IF Lookup(additions, sv, r) # "-" THEN Lookup(additions, sv, r)
        ELSE Lookup(given_defaults, sv, r)

\* a service in both documents, with a region only defaults has, a region
\* only the overlay has, and the merge kept both
C30_Witness ==
  /\ merged
  /\ Lookup(given_defaults, "s3", 1) = "default"
  /\ Lookup(additions, "s3", 1) = "-"
  /\ Lookup(given_defaults, "s3", 2) = "-"
  /\ Lookup(additions, "s3", 2) = "overlay"
  /\ Lookup(defaults, "s3", 1) = "default"
  /\ Lookup(defaults, "s3", 2) = "overlay"

\* the capabilities of a request, none for None
RequestedSet(request) ==
  IF request.none THEN {}
  ELSE {request.list[k] : k \in 1..Len(request.list)}

\* C31: get_plugin returns the direct subclasses that declare every
\* requested capability, each once and in registration order; all of them
\* for an empty or missing request, none when no subclass is capable
C31_GetPluginSelectsCapable ==
  plugin_called =>
    /\ \A k \in 1..Len(subclasses) :
         (RequestedSet(requested) \subseteq subclasses[k])
           <=> (\E n \in 1..Len(plugin_result) : plugin_result[n] = k)
    /\ \A m, n \in 1..Len(plugin_result) :
         m < n => plugin_result[m] < plugin_result[n]
    /\ (requested.none \/ requested.list = <<>>) =>
         plugin_result = [k \in 1..Len(subclasses) |-> k]

\* two subclasses, two capabilities requested, only the second subclass
\* declares both
C31_Witness ==
  /\ plugin_called
  /\ Len(subclasses) = 2
  /\ requested.list = <<"s3", "hmac-v4">>
  /\ subclasses[1] = {"s3"}
  /\ plugin_result = <<2>>

\* what the classifier answers to the response just received
Instruction == RetryHandler(received', i, validate_checksums)

\* C32: on the step that receives a response for which the classifier
\* returns a retry instruction, nothing is returned, the hook is not called,
\* the loop sleeps the instructed delay and goes on with exactly the
\* instructed attempt index; the next send is the attempt of that index
C32_InstructionReplacesDefault ==
  [][/\ (pc = "await" /\ pc' # "await" /\ last_decision' = "status") =>
        /\ Instruction.kind = "status"
        /\ pc' = "loop"
        /\ returnValue' = returnValue
        /\ hook_calls' = hook_calls
        /\ sleeps' = sleeps + 1
        /\ last_sleep' = Instruction.sleep
        /\ i' = Instruction.i
     /\ (pc = "loop" /\ pc' = "await" /\ last_decision = "status") =>
        attempt' = i]_vars

\* a 200 response whose checksum did not match was retried on the
\* classifier's instruction, with a request hook set, and the next attempt
\* is in flight
C32_Witness ==
  /\ pc = "await"
  /\ last_decision = "status"
  /\ received.code = 200
  /\ request_hook
  /\ hook_calls = 0
  /\ sends = 2
  /\ attempt = 1

\* C33: an invocation of _mexe with Layer1's classifier ends, returning or
\* raising, and each of its sends after the first has a larger attempt
\* index than the send before
C33_InvocationTerminates ==
  /\ (pc = "loop") ~> (pc \in {"returned", "raised"})
  /\ [][(sends >= 1 /\ sends' = sends + 1) => attempt' > attempt]_vars

\* an invocation that ended with its third attempt, the index having gone
\* from 0 to 1 on a throughput response and from 1 to 6 on an expired token
C33_Witness ==
  /\ retry_handler = "adapter"
  /\ pc = "returned"
  /\ sends = 3
  /\ attempt = ConnNumRetries
  /\ provider = 1
  /\ throughput_exceeded_events = 1

\* C34: once an attempt has raised PleaseRetryException the loop has
\* recorded it, slept and gone on to the loop condition, and the invocation
\* ends in an error only by exhausting its budget
C34_PleaseRetryIsRetried ==
  (last_exc = "PleaseRetryException" /\ pc # "await") =>
    /\ ex = "PleaseRetryException"
    /\ last_sleep >= 0
    /\ pc = "raised" => ending = "exhausted"

\* C35: with a limit L >= 0 given to to_call, __next__ has returned at most
\* L result items; a negative limit is stored as no limit and never stops
\* the iteration while an item of the page is left
C35_AtMostLimitItems ==
  given_limit # <<>> =>
    IF given_limit[1] >= 0
      THEN yielded <= given_limit[1]
      ELSE limit = <<>> /\ ~(stopped /\ offset < results)

\* the limit stopped the iteration with an item of the second page left
C35_Witness ==
  /\ given_limit = <<MaxLimit>>
  /\ yielded = MaxLimit
  /\ fetches = 2
  /\ stopped
  /\ offset < results

Last(q) == q[Len(q)]

\* C36: the first fetch passes no exclusive_start_key, each later fetch
\* passes the last_key of the page before it, which had one; after a page
\* without last_key, once its items are consumed, the next call of __next__
\* raises StopIteration and fetches nothing
C36_PaginationContinuesAndStops ==
  /\ [](/\ Len(sent_kwargs) \in {Len(pages), Len(pages) + 1}
        /\ \A k \in 1..Len(sent_kwargs) :
             IF k = 1 THEN sent_kwargs[k].exclusive_start_key = 0
             ELSE /\ pages[k - 1] # 0
                  /\ sent_kwargs[k].exclusive_start_key = pages[k - 1])
  /\ [][(/\ rs_pc = "ready"
          /\ pages # <<>>
          /\ Last(pages) = 0
          /\ offset >= results) =>
            (/\ stopped'
             /\ sent_kwargs' = sent_kwargs
             /\ yielded' = yielded)]_vars

\* three pages were fetched, the third came without last_key, its items
\* were consumed and the iteration stopped
C36_Witness ==
  /\ Len(pages) = 3
  /\ pages[3] = 0
  /\ sent_kwargs[3].exclusive_start_key = 2
  /\ yielded >= 3
  /\ stopped
  /\ offset >= results

\* the elements of a list
Elements(q) == {q[k] : k \in 1..Len(q)}

\* C37: after a page, each key it reported as unprocessed is in keys_left
\* and results_left is set; and every key handed to the result set is
\* waiting in keys_left, in the request in flight, or accounted for by a page
C37_UnprocessedKeysAreRequeued ==
  /\ (rs_pc = "ready" /\ unprocessed_keys # <<>>) =>
       /\ Elements(unprocessed_keys) \subseteq Elements(keys_left)
       /\ results_left
  /\ Elements(given_keys) \subseteq
       Elements(keys_left) \cup Elements(keys_sent) \cup processed

C39_ToDictKeepsEveryOperation ==
  write_converted =>
    \A k \in 1..Len(write_list) :
      /\ write_list[k].table \in DOMAIN write_request
      /\ OpList(write_list[k]) \subseteq write_request[write_list[k].table]

\* the bundled document with the file at path merged over it: the file's
\* endpoint for region 1 of s3, everything else as bundled
Overlaid(doc, path) ==
  [sv \in DOMAIN doc \cup {"s3"} |->
     IF sv = "s3"
       THEN [r \in (IF "s3" \in DOMAIN doc THEN DOMAIN doc["s3"] ELSE {})
                     \cup {1} |->
               IF r = 1 THEN path ELSE doc["s3"][r]]
       ELSE doc[sv]]

\* C40: load_regions returns the bundled endpoints with the file named by
\* TXBOTO_ENDPOINTS merged over them when that variable is set, else with
\* the file named by endpoints_path when that option is set, else the
\* bundled endpoints as they are
C40_LoadRegionsUsesEitherOverlay ==
  regions_loaded =>
    /\ load_result.ok
    /\ load_result.endpoints =
         IF IsSet(environ.TXBOTO_ENDPOINTS)
           THEN Overlaid(bundled, environ.TXBOTO_ENDPOINTS[1])
         ELSE IF IsSet(endpoints_path)
           THEN Overlaid(bundled, endpoints_path[1])
         ELSE bundled

====
